---- MODULE Spec2Model ----
(***************************************************************************)
(* Model of the typed encode/decode, mock-encryption, encrypted-input      *)
(* builder and decryption-authorization layer of the FHEVM SDK, of the     *)
(* FhevmSDK class and of the CulturalVoting contract.                      *)
(*                                                                         *)
(* Specifications, all over the same variables (each leaves the variables  *)
(* of the others at their idle values):                                    *)
(*   SpecCodec   valueToBytes, bytesToT and mockEncrypt on one value       *)
(*   Spec        one EncryptedInputBuilder and the calls on it             *)
(*   SpecShared  one EncryptedInputBuilder used by several tasks           *)
(*   SpecSdk     one FhevmSDK instance and the calls on it                 *)
(*   SpecAuth    signing and verifying a DecryptionRequest                 *)
(*   SpecBatch   batchDecrypt on a handles and a types array               *)
(*   SpecPipeline a builder, encrypt() and batchDecrypt on its handles     *)
(*   SpecVoting  the CulturalVoting contract and the transactions sent     *)
(*   SpecCrowd   the CulturalVoting contract with a round of many voters   *)
(*   SpecLimiter one RateLimiter, its callers and the clock                *)
(*   SpecProvider the FhevmProvider component and its init calls           *)
(*                                                                         *)
(* Numbers.  A JavaScript number or bigint is kept as sign and magnitude;  *)
(* the magnitude is a little-endian sequence of base-65536 limbs without   *)
(* trailing zero limbs, so that 2^32 and 2^64 are exact.  A number may     *)
(* also carry a fractional part of one half (frac = "half") or be NaN.     *)
(*                                                                         *)
(* Values.  Every JavaScript value is a record                             *)
(*     [k, neg, mag, frac, form]                                           *)
(* k    : "number", "bigint", "boolean", "string" (the typeof)             *)
(* mag  : the limbs (number, bigint, decimal string), <<1>>/<<>> for       *)
(*        true/false, the 20 bytes of an address string                    *)
(* form : for strings, how the text is written: "decimal", "text",         *)
(*        "checksum", "lower", "upper", "icap" (valid address spellings),  *)
(*        "badmix" (mixed case with a wrong checksum); "-" otherwise       *)
(***************************************************************************)
EXTENDS Integers, Sequences, FiniteSets, TLC

VARIABLES
    cval,      \* codec harness: the value handed to valueToBytes
    ctype,     \* codec harness: the declared type
    cenc,      \* codec harness: outcome of valueToBytes / mockEncrypt
    cdec,      \* codec harness: outcome of bytesToT on the encoded bytes
    cmock,     \* codec harness: outcome of mockEncrypt on the same value
    ckey,      \* codec harness: the public key handed to mockEncrypt
    cagain,    \* codec harness: outcome of a second mockEncrypt call on the same arguments
    inputs,    \* EncryptedInputBuilder.inputs
    publicKey, \* EncryptedInputBuilder.publicKey
    bres,      \* outcome of the builder call that ran last
    returns,   \* whether encrypt() has returned a result on the builder: "none", "once", "again"
    sdk,       \* the FhevmSDK instance: whether init made it, its signer and key
    sdkOut,    \* outcome of the FhevmSDK call that ran last
    littleEndian, \* byte order of the platform's typed arrays
    areq,      \* the DecryptionRequest the caller holds
    asigner,   \* the ethers signer: its address and its provider's network
    aorigin,   \* how the request came to its signature
    averify,   \* outcome of the verifyDecryptionSignature call that ran last
    bhandles,  \* batch decoding: the handles array handed to batchDecrypt
    btypes,    \* batch decoding: the types array handed to batchDecrypt
    bout,      \* outcome of the batchDecrypt call, with the mockDecrypt calls it made
    owners,    \* shared builder: the add calls made so far, in call order (task, value, type)
    caller,    \* shared builder: the task whose call ran last
    admin,               \* CulturalVoting.admin
    currentVotingRound,  \* CulturalVoting.currentVotingRound
    totalProjects,       \* CulturalVoting.totalProjects
    projects,            \* CulturalVoting.projects (isActive of each project id)
    votingRounds,        \* CulturalVoting.votingRounds
    votes,               \* CulturalVoting.votes
    authorizedVoters,    \* CulturalVoting.authorizedVoters
    txn,                 \* the transaction that ran last and how it ended
    started,             \* history: the rounds a startVotingRound call has started
    ended,               \* history: the rounds an endVotingRound call has ended
    accepted,            \* history: the submitVote calls that succeeded, per round, project, voter
    decryption,          \* the decryption requests the gateway holds, not yet answered
    requests,  \* RateLimiter.requests: identifier -> the times kept for it
    limit,     \* RateLimiter.limit
    window,    \* RateLimiter.window (windowMs)
    clock,     \* what Date.now() returns
    lout,      \* outcome of the RateLimiter call that ran last
    granted,   \* history: per identifier, the times of the check calls that returned true since its last reset
    lcalls,    \* history: the number of RateLimiter calls made
    fhevm,         \* FhevmProvider: the fhevm state (null, or the instance an init returned)
    initState,     \* FhevmProvider: the initState state
    error,         \* FhevmProvider: the error state (null, or the error an init threw)
    config,        \* FhevmProvider: the config prop of the last render
    pendingInits,  \* the FhevmSDK.init calls that have not settled, in call order
    latest         \* history: the initialization requested last and how it settled

vars == <<cval, ctype, cenc, cdec, cmock, ckey, cagain, inputs, publicKey, bres, returns,
         sdk, sdkOut, littleEndian, areq, asigner, aorigin, averify,
         bhandles, btypes, bout, owners, caller,
         admin, currentVotingRound, totalProjects, projects, votingRounds, votes,
         authorizedVoters, txn, started, ended, accepted, decryption,
         requests, limit, window, clock, lout, granted, lcalls,
         fhevm, initState, error, config, pendingInits, latest>>

codecVars == <<cval, ctype, cenc, cdec, cmock, ckey, cagain>>
builderVars == <<inputs, publicKey, bres, returns>>

sdkVars == <<sdk, sdkOut, littleEndian>>

authVars == <<areq, asigner, aorigin, averify>>

batchVars == <<bhandles, btypes, bout>>

sharedVars == <<owners, caller>>

storage == <<admin, currentVotingRound, totalProjects, projects, votingRounds, votes,
             authorizedVoters>>

votingVars == <<storage, txn, started, ended, accepted, decryption>>

limiterVars == <<requests, limit, window, clock, lout, granted, lcalls>>

providerVars == <<fhevm, initState, error, config, pendingInits, latest>>

notCodec == <<builderVars, sdkVars, authVars, batchVars, sharedVars, votingVars, limiterVars, providerVars>>
notBuilder == <<codecVars, sdkVars, authVars, batchVars, sharedVars, votingVars, limiterVars, providerVars>>
notSdk == <<codecVars, builderVars, authVars, batchVars, sharedVars, votingVars, limiterVars, providerVars>>
notAuth == <<codecVars, builderVars, sdkVars, batchVars, sharedVars, votingVars, limiterVars, providerVars>>
notBatch == <<codecVars, builderVars, sdkVars, authVars, sharedVars, votingVars, limiterVars, providerVars>>
notShared == <<codecVars, sdkVars, authVars, batchVars, votingVars, limiterVars, providerVars>>
notVoting == <<codecVars, builderVars, sdkVars, authVars, batchVars, sharedVars, limiterVars, providerVars>>
notPipeline == <<codecVars, sdkVars, authVars, sharedVars, votingVars, limiterVars, providerVars>>
notProvider == <<codecVars, builderVars, sdkVars, authVars, batchVars, sharedVars, votingVars,
                 limiterVars>>
notLimiter == <<codecVars, builderVars, sdkVars, authVars, batchVars, sharedVars, votingVars, providerVars>>

------------------------------------------------------------------------------
(* Limb arithmetic *)

Base == 256 * 256

RECURSIVE Canon(_)
Canon(m) ==
    IF m = <<>> THEN <<>>
    ELSE IF m[Len(m)] = 0 THEN Canon(SubSeq(m, 1, Len(m) - 1))
    ELSE m

Limb(m, j) == IF j <= Len(m) THEN m[j] ELSE 0

\* byte i (counted from 0) of the magnitude, least significant first
ByteOf(m, i) ==
    LET l == Limb(m, (i \div 2) + 1)
    IN  IF i % 2 = 0 THEN l % 256 ELSE l \div 256

RECURSIVE MagLessFrom(_, _, _)
MagLessFrom(a, b, j) ==
    IF j = 0 THEN FALSE
    ELSE IF Limb(a, j) # Limb(b, j) THEN Limb(a, j) < Limb(b, j)
    ELSE MagLessFrom(a, b, j - 1)

MagLess(a, b) ==
    LET n == IF Len(a) > Len(b) THEN Len(a) ELSE Len(b)
    IN  MagLessFrom(a, b, n)

\* 2^(8w) - 1 as limbs, for w in {1, 2, 4, 8}
MaxMag(w) == IF w = 1 THEN <<255>> ELSE [j \in 1..(w \div 2) |-> Base - 1]

------------------------------------------------------------------------------
(* JavaScript values *)

Num(neg, m, frac) == [k |-> "number", neg |-> neg, mag |-> m, frac |-> frac, form |-> "-"]
IntNum(m) == Num(FALSE, m, "int")
NaN == Num(FALSE, <<>>, "nan")
Big(neg, m) == [k |-> "bigint", neg |-> neg, mag |-> m, frac |-> "int", form |-> "-"]
Bool(b) == [k |-> "boolean", neg |-> FALSE, mag |-> IF b THEN <<1>> ELSE <<>>,
            frac |-> "int", form |-> "-"]
Str(form, m) == [k |-> "string", neg |-> FALSE, mag |-> m, frac |-> "int", form |-> form]

HasLetters(bytes) ==
    \E i \in 1..Len(bytes) : bytes[i] \div 16 >= 10 \/ bytes[i] % 16 >= 10

\* The text of an address: spellings that differ only in the case of the
\* letters are the same string when the address has no hex letter at all.
AddrStr(bytes, form) ==
    IF form \in {"lower", "upper"} /\ ~HasLetters(bytes)
    THEN Str("checksum", bytes)
    ELSE Str(form, bytes)

AddressForms == {"checksum", "lower", "upper", "icap"}
HexForms == {"checksum", "lower", "upper", "badmix"}

\* The number an hex address text ("0x" and 40 hex digits) denotes.
AddrMag(bytes) ==
    Canon([j \in 1..10 |-> bytes[22 - 2 * j] + 256 * bytes[21 - 2 * j]])

\* ToNumeric as the relational operators apply it to our values: def is
\* FALSE where the conversion yields NaN / undefined (every comparison is
\* then false).
NumericOf(v) ==
    CASE v.k = "number" ->
           [def |-> v.frac # "nan", neg |-> v.neg, mag |-> v.mag, half |-> v.frac = "half"]
      [] v.k \in {"bigint", "boolean"} ->
           [def |-> TRUE, neg |-> v.neg, mag |-> v.mag, half |-> FALSE]
      [] v.k = "string" /\ v.form = "decimal" ->
           [def |-> TRUE, neg |-> FALSE, mag |-> v.mag, half |-> FALSE]
      [] v.k = "string" /\ v.form \in HexForms ->
           [def |-> TRUE, neg |-> FALSE, mag |-> AddrMag(v.mag), half |-> FALSE]
      [] OTHER ->
           [def |-> FALSE, neg |-> FALSE, mag |-> <<>>, half |-> FALSE]

\* value < 0   (also value < 0n)
LtZero(v) == LET n == NumericOf(v) IN n.def /\ n.neg

\* value > max (also value > max n)
GtMag(v, max) ==
    LET n == NumericOf(v)
    IN  n.def /\ ~n.neg /\ (MagLess(max, n.mag) \/ (n.mag = max /\ n.half))

NumberIsInteger(v) == v.k = "number" /\ v.frac = "int"

RECURSIVE AddOne(_, _)
AddOne(bytes, i) ==
    IF i > Len(bytes) THEN bytes
    ELSE IF bytes[i] = 255 THEN AddOne([bytes EXCEPT ![i] = 0], i + 1)
    ELSE [bytes EXCEPT ![i] = bytes[i] + 1]

\* ToUint8 / ToUint16 / ToUint32 / BigInt.asUintN(64) followed by the
\* little-endian store: truncate toward zero, reduce modulo 2^(8w).
ToUintBytes(neg, m, w) ==
    IF neg
    THEN AddOne([i \in 1..w |-> 255 - ByteOf(m, i - 1)], 1)
    ELSE [i \in 1..w |-> ByteOf(m, i - 1)]

------------------------------------------------------------------------------
(* Outcomes: a call either returns (ok) or throws (err names the error) *)

Threw(msg) == [ok |-> FALSE, err |-> msg, bytes |-> <<>>]
Bytes(b) == [ok |-> TRUE, err |-> "", bytes |-> b]

ErrUint8 == "Value must be an integer between 0 and 255 for uint8"
ErrUint16 == "Value must be an integer between 0 and 65535 for uint16"
ErrUint32 == "Value must be an integer between 0 and 2^32-1 for uint32"
ErrUint64 == "Value must be between 0 and 2^64-1 for uint64"
ErrBool == "Value must be a boolean"
ErrAddress == "Invalid Ethereum address format"
ValidationErrors == {ErrUint8, ErrUint16, ErrUint32, ErrUint64, ErrBool, ErrAddress}

EncryptedType == {"uint8", "uint16", "uint32", "uint64", "address", "bool"}

------------------------------------------------------------------------------
(* Type validators: TRUE when the validator returns, FALSE when it throws *)

validateUint8(value) ==
    ~(~NumberIsInteger(value) \/ LtZero(value) \/ GtMag(value, MaxMag(1)))

\* validateUint16 with its upper bound off by one (value > 65536)
validateUint16OffByOne(value) ==
    ~(~NumberIsInteger(value) \/ LtZero(value) \/ GtMag(value, <<0, 1>>))

validateUint16(value) ==
    ~(~NumberIsInteger(value) \/ LtZero(value) \/ GtMag(value, MaxMag(2)))

validateUint32(value) ==
    ~(~NumberIsInteger(value) \/ LtZero(value) \/ GtMag(value, MaxMag(4)))

validateUint64(value) ==
    ~(LtZero(value) \/ GtMag(value, MaxMag(8)))

validateBool(value) == value.k = "boolean"

\* ethers.isAddress: a string that getAddress accepts
isAddress(value) == value.k = "string" /\ value.form \in AddressForms

validateAddress(address) == isAddress(address)

\* ethers.getAddress: the checksummed spelling
getAddress(value) == Str("checksum", value.mag)

\* DataView.setBigUint64(0, value, true): ToBigInt(value), then the store
setBigUint64(value) ==
    CASE value.k \in {"bigint", "boolean"} ->
           Bytes(ToUintBytes(value.neg, value.mag, 8))
      [] value.k = "string" /\ NumericOf(value).def ->
           Bytes(ToUintBytes(FALSE, NumericOf(value).mag, 8))
      [] value.k = "string" -> Threw("SyntaxError")
      [] OTHER -> Threw("TypeError")

\* the element store with the bytes laid out most significant first
\* (setUint16 / setUint32 without the `true` argument)
storeNumberBigEndian(value, w) ==
    IF value.k = "bigint" THEN Threw("TypeError")
    ELSE LET n == NumericOf(value)
         IN  IF n.def THEN Bytes([i \in 1..w |-> ToUintBytes(n.neg, n.mag, w)[w + 1 - i]])
             ELSE Bytes([i \in 1..w |-> 0])

\* an element store into a typed array / DataView of w bytes: ToNumber(value)
storeNumber(value, w) ==
    IF value.k = "bigint" THEN Threw("TypeError")
    ELSE LET n == NumericOf(value)
         IN  IF n.def THEN Bytes(ToUintBytes(n.neg, n.mag, w))
             ELSE Bytes([i \in 1..w |-> 0])

valueToBytes(value, type) ==
    CASE type = "uint8" ->
           IF validateUint8(value) THEN storeNumber(value, 1) ELSE Threw(ErrUint8)
      [] type = "uint16" ->
           IF validateUint16(value) THEN storeNumber(value, 2) ELSE Threw(ErrUint16)
      [] type = "uint32" ->
           IF validateUint32(value) THEN storeNumber(value, 4) ELSE Threw(ErrUint32)
      [] type = "uint64" ->
           IF validateUint64(value) THEN setBigUint64(value) ELSE Threw(ErrUint64)
      [] type = "bool" ->
           IF validateBool(value)
           THEN Bytes(<<IF value.mag # <<>> THEN 1 ELSE 0>>)
           ELSE Threw(ErrBool)
      [] type = "address" ->
           IF validateAddress(value) THEN Bytes(getAddress(value).mag) ELSE Threw(ErrAddress)
      [] OTHER -> Threw("Unsupported encryption type")


------------------------------------------------------------------------------
(* Value decoders (bytesToT) *)

Undefined == [k |-> "undefined", neg |-> FALSE, mag |-> <<>>, frac |-> "int", form |-> "-"]
Returned(v) == [ok |-> TRUE, err |-> "", val |-> v]
Failed(msg) == [ok |-> FALSE, err |-> msg, val |-> Undefined]

\* ethers.hexlify of 20 bytes: the lower-case "0x" text of the address
hexlifyAddress(bytes) == AddrStr(bytes, "lower")

bytesToUint8(bytes) ==
    IF Len(bytes) < 1 THEN Failed("Insufficient bytes for uint8")
    ELSE Returned(IntNum(Canon(<<bytes[1]>>)))

\* bytesToUint16 reading the two bytes big-endian (getUint16(0) without `true`)
bytesToUint16BigEndian(bytes) ==
    IF Len(bytes) < 2 THEN Failed("Insufficient bytes for uint16")
    ELSE Returned(IntNum(Canon(<<bytes[2] + 256 * bytes[1]>>)))

bytesToUint16(bytes) ==
    IF Len(bytes) < 2 THEN Failed("Insufficient bytes for uint16")
    ELSE Returned(IntNum(Canon(<<bytes[1] + 256 * bytes[2]>>)))

bytesToUint32(bytes) ==
    IF Len(bytes) < 4 THEN Failed("Insufficient bytes for uint32")
    ELSE Returned(IntNum(Canon(<<bytes[1] + 256 * bytes[2], bytes[3] + 256 * bytes[4]>>)))

bytesToUint64(bytes) ==
    IF Len(bytes) < 8 THEN Failed("Insufficient bytes for uint64")
    ELSE Returned(Big(FALSE, Canon([j \in 1..4 |->
                                      bytes[2 * j - 1] + 256 * bytes[2 * j]])))

bytesToBool(bytes) ==
    IF Len(bytes) < 1 THEN Failed("Insufficient bytes for bool")
    ELSE Returned(Bool(bytes[1] # 0))

bytesToAddress(bytes) ==
    IF Len(bytes) < 20 THEN Failed("Insufficient bytes for address")
    ELSE Returned(getAddress(hexlifyAddress(SubSeq(bytes, 1, 20))))

\* the decoder the type selects (the switch of mockDecrypt)
bytesToValue(bytes, type) ==
    CASE type = "uint8" -> bytesToUint8(bytes)
      [] type = "uint16" -> bytesToUint16(bytes)
      [] type = "uint32" -> bytesToUint32(bytes)
      [] type = "uint64" -> bytesToUint64(bytes)
      [] type = "bool" -> bytesToBool(bytes)
      [] type = "address" -> bytesToAddress(bytes)
      [] OTHER -> Failed("Unsupported decryption type")

------------------------------------------------------------------------------
(* Mock encryptor *)

RECURSIVE Xor(_, _)
Xor(a, b) ==
    IF a = 0 /\ b = 0 THEN 0
    ELSE (((a % 2) + (b % 2)) % 2) + 2 * Xor(a \div 2, b \div 2)

BitAnd255(i) == i % 256

\* a ^ b for a byte a and an index b < 64, tabulated once
XorByte == [a \in 0..255 |-> [b \in 0..63 |-> Xor(a, b)]]

ProofSize == 64

\* generateMockProof with the key laid before the value bytes in `combined`
generateMockProofKeyFirst(valueBytes, key) ==
    LET combined == key \o valueBytes
    IN  [n \in 1..ProofSize |->
            XorByte[combined[((n - 1) % Len(combined)) + 1]][BitAnd255(n - 1)]]

generateMockProof(valueBytes, key) ==
    LET combined == valueBytes \o key
    IN  [n \in 1..ProofSize |->
            XorByte[combined[((n - 1) % Len(combined)) + 1]][BitAnd255(n - 1)]]

Encrypted(data, proof, type) ==
    [ok |-> TRUE, err |-> "", data |-> data, proof |-> proof, type |-> type]
EncryptThrew(msg) ==
    [ok |-> FALSE, err |-> msg, data |-> <<>>, proof |-> <<>>, type |-> "-"]

mockEncrypt(value, type, key) ==
    LET valueBytes == valueToBytes(value, type)
    IN  IF ~valueBytes.ok THEN EncryptThrew(valueBytes.err)
        ELSE Encrypted(key \o valueBytes.bytes,
                       generateMockProof(valueBytes.bytes, key), type)

------------------------------------------------------------------------------
(* Encrypted-input builder *)

\* ethers.hexlify: the hex digits of the bytes, high nibble first
hexlify(bytes) ==
    [n \in 1..(2 * Len(bytes)) |->
        IF n % 2 = 1 THEN bytes[(n + 1) \div 2] \div 16 ELSE bytes[n \div 2] % 16]

RECURSIVE Concat(_)
Concat(seqs) == IF seqs = <<>> THEN <<>> ELSE Head(seqs) \o Concat(Tail(seqs))

BuilderResult(op, ok, err, handles, inputProof, type) ==
    [op |-> op, ok |-> ok, err |-> err, handles |-> handles,
     inputProof |-> inputProof, type |-> type]
NoCall == BuilderResult("none", TRUE, "", <<>>, <<>>, "-")
AddReturned == BuilderResult("add", TRUE, "", <<>>, <<>>, "-")

ErrNoInputs == "No inputs to encrypt"

\* encrypt() reporting the type of the last accumulated value
encryptInputsTypeOfLast(ins, key) ==
    IF Len(ins) = 0
    THEN BuilderResult("encrypt", FALSE, ErrNoInputs, <<>>, <<>>, "-")
    ELSE LET encs == [i \in 1..Len(ins) |-> mockEncrypt(ins[i].value, ins[i].type, key)]
         IN  IF \E i \in 1..Len(ins) : ~encs[i].ok
             THEN BuilderResult("encrypt", FALSE, "error", <<>>, <<>>, "-")
             ELSE BuilderResult("encrypt", TRUE, "",
                                [i \in 1..Len(ins) |-> hexlify(encs[i].data)],
                                Concat([i \in 1..Len(ins) |-> encs[i].proof]),
                                ins[Len(ins)].type)

\* encrypt() without the check for an empty accumulation
encryptInputsNoEmptyCheck(ins, key) ==
    LET encs == [i \in 1..Len(ins) |-> mockEncrypt(ins[i].value, ins[i].type, key)]
        bad == {i \in 1..Len(ins) : ~encs[i].ok}
    IN  IF bad # {}
        THEN LET first == CHOOSE i \in bad : \A j \in bad : i <= j
             IN  BuilderResult("encrypt", FALSE, encs[first].err, <<>>, <<>>, "-")
        ELSE BuilderResult("encrypt", TRUE, "",
                           [i \in 1..Len(ins) |-> hexlify(encs[i].data)],
                           Concat([i \in 1..Len(ins) |-> encs[i].proof]),
                           IF Len(ins) = 0 THEN "-" ELSE ins[1].type)

\* the outcome of EncryptedInputBuilder.encrypt() on the accumulated inputs
encryptInputs(ins, key) ==
    IF Len(ins) = 0
    THEN BuilderResult("encrypt", FALSE, ErrNoInputs, <<>>, <<>>, "-")
    ELSE LET encs == [i \in 1..Len(ins) |-> mockEncrypt(ins[i].value, ins[i].type, key)]
             bad == {i \in 1..Len(ins) : ~encs[i].ok}
         IN  IF bad # {}
             THEN LET first == CHOOSE i \in bad : \A j \in bad : i <= j
                  IN  BuilderResult("encrypt", FALSE, encs[first].err, <<>>, <<>>, "-")
             ELSE BuilderResult("encrypt", TRUE, "",
                                [i \in 1..Len(ins) |-> hexlify(encs[i].data)],
                                Concat([i \in 1..Len(ins) |-> encs[i].proof]),
                                ins[1].type)

\* encrypt() emptying the accumulation once it has run
inputsClearedByEncrypt(ins) == <<>>

\* what encrypt() leaves in this.inputs
inputsAfterEncrypt(ins) == ins

\* push putting the new input in front of the accumulated ones
pushFront(ins, value, type) == <<[value |-> value, type |-> type]>> \o ins

\* what this.inputs.push({ value, type }) leaves in this.inputs
push(ins, value, type) == Append(ins, [value |-> value, type |-> type])


------------------------------------------------------------------------------
(* The values the checks range over *)

Limbs == {0, 4660, 65535}

\* all magnitudes of at most n limbs drawn from Limbs
MagsUpTo(n) == {Canon(s) : s \in [1..n -> Limbs]}

Pow2(n) == [j \in 1..(n + 1) |-> IF j = n + 1 THEN 1 ELSE 0]   \* 2^(16 n)

\* numbers: every uint8, the patterns below 2^48 (exact doubles) and the
\* powers of two at the type boundaries
NumberMags ==
    {Canon(<<b>>) : b \in 0..256} \cup MagsUpTo(3)
        \cup {<<1000>>, Pow2(1), Pow2(2), Pow2(4)}

BigMags == MagsUpTo(4) \cup {<<1>>, <<255>>, <<256>>, Pow2(1), Pow2(2), Pow2(4)}

Numbers ==
    {IntNum(m) : m \in NumberMags}
        \cup {Num(TRUE, m, "int") : m \in {<<1>>, <<256>>}}
        \cup {Num(FALSE, m, "half") : m \in {<<>>, <<1>>, <<255>>}}
        \cup {Num(TRUE, <<>>, "half"), NaN}

BigInts == {Big(FALSE, m) : m \in BigMags} \cup {Big(TRUE, <<1>>)}

Booleans == {Bool(TRUE), Bool(FALSE)}

\* 20-byte addresses: two with hex letters, one without, one below 2^64
AddrBytesA == [i \in 1..20 |-> (171 + 17 * i) % 256]
AddrBytesB == [i \in 1..20 |-> (222 + 29 * i) % 256]
AddrBytesDigits == [i \in 1..20 |-> 17 + (i % 5)]
AddrBytesSmall == [i \in 1..20 |-> IF i < 20 THEN 0 ELSE 18]
AddressBytes == {AddrBytesA, AddrBytesB, AddrBytesDigits, AddrBytesSmall}

AddressTexts ==
    {AddrStr(b, f) : b \in AddressBytes, f \in AddressForms}
        \cup {Str("badmix", b) : b \in {x \in AddressBytes : HasLetters(x)}}

Strings == {Str("decimal", <<5>>), Str("decimal", <<300>>), Str("text", <<>>)}
               \cup AddressTexts

Values == Numbers \cup BigInts \cup Booleans \cup Strings

\* the placeholder key of FhevmSDK.fetchPublicKey and a second 32-byte key
KeyFill1 == [i \in 1..32 |-> 1]
KeyCount == [i \in 1..32 |-> 7 * i]
CodecKeys == {KeyFill1, KeyCount}

------------------------------------------------------------------------------
(* Encrypted data as a caller hands it over: a Uint8Array ("bytes"), the   *)
(* hex text of the bytes ("hex"), or a text that is no hex data ("text")   *)

Handle(kind, bytes) == [kind |-> kind, bytes |-> bytes]

\* typeof encryptedData === 'string' ? ethers.getBytes(encryptedData) : encryptedData
handleBytes(handle) ==
    IF handle.kind = "text" THEN Threw("invalid BytesLike value")
    ELSE Bytes(handle.bytes)

------------------------------------------------------------------------------
(* FhevmSDK: the instance made by init and its methods *)

NoSdk == [made |-> FALSE, signer |-> FALSE, publicKey |-> <<>>]

\* The outcome of a call.  For an encrypt call arg is the value handed in,
\* data, proof and type the EncryptedData returned.  For a decrypt or
\* reencrypt call input is the encrypted data handed in and val / data what
\* the call returned; when the input is the data of the instance's own
\* encrypt call, arg and type are that call's value and type.
SdkResult(op, ok, err, data, proof, type) ==
    [op |-> op, arg |-> Undefined, ok |-> ok, err |-> err, data |-> data,
     proof |-> proof, type |-> type, val |-> Undefined,
     input |-> Handle("bytes", <<>>)]
SdkIdle == SdkResult("none", TRUE, "", <<>>, <<>>, "-")
SdkThrew(op, msg) == SdkResult(op, FALSE, msg, <<>>, <<>>, "-")

\* fetchPublicKey: new Uint8Array(32).fill(1)
fetchPublicKey == [i \in 1..32 |-> 1]

\* ToBoolean, as `value ? 1 : 0` applies it (every string here is non-empty)
Truthy(v) ==
    CASE v.k \in {"number", "bigint"} -> v.frac # "nan" /\ (v.mag # <<>> \/ v.frac = "half")
      [] v.k = "boolean" -> v.mag # <<>>
      [] OTHER -> TRUE

Reverse(b) == [i \in 1..Len(b) |-> b[Len(b) + 1 - i]]

\* new UintNArray([value]).buffer: the element in the platform's byte order
typedArrayBytes(value, w, le) ==
    LET stored == storeNumber(value, w)
    IN  IF stored.ok /\ ~le THEN Bytes(Reverse(stored.bytes)) ELSE stored

\* FhevmSDK.valueToBytes (private)
sdkValueToBytes(value, type, le) ==
    CASE type = "uint8" -> storeNumber(value, 1)
      [] type = "uint16" -> typedArrayBytes(value, 2, le)
      [] type = "uint32" -> typedArrayBytes(value, 4, le)
      [] type = "bool" -> storeNumber(value, 1)
      [] type = "address" -> Bytes(value.mag)
      [] OTHER -> Threw("Unsupported type")

\* FhevmSDK.encrypt putting a key of its own making in front of the value
sdkEncryptOwnKey(op, inst, value, type, le) ==
    LET valueBytes == sdkValueToBytes(value, type, le)
    IN  IF ~valueBytes.ok THEN SdkThrew(op, valueBytes.err)
        ELSE SdkResult(op, TRUE, "", [i \in 1..32 |-> 2] \o valueBytes.bytes,
                       [i \in 1..64 |-> 2], type)

\* FhevmSDK.encrypt (private)
sdkEncrypt(op, inst, value, type, le) ==
    IF inst.publicKey = <<>>
    THEN SdkThrew(op, "Public key not available. SDK may not be initialized properly.")
    ELSE LET valueBytes == sdkValueToBytes(value, type, le)
         IN  IF ~valueBytes.ok THEN SdkThrew(op, valueBytes.err)
             ELSE SdkResult(op, TRUE, "",
                            SubSeq(inst.publicKey, 1, 32) \o valueBytes.bytes,
                            [i \in 1..64 |-> 2], type)

encryptUint8Result(inst, value, le) ==
    IF LtZero(value) \/ GtMag(value, MaxMag(1))
    THEN SdkThrew("encryptUint8", "Value must be between 0 and 255 for uint8")
    ELSE sdkEncrypt("encryptUint8", inst, value, "uint8", le)

encryptUint16Result(inst, value, le) ==
    IF LtZero(value) \/ GtMag(value, MaxMag(2))
    THEN SdkThrew("encryptUint16", "Value must be between 0 and 65535 for uint16")
    ELSE sdkEncrypt("encryptUint16", inst, value, "uint16", le)

encryptUint32Result(inst, value, le) ==
    IF LtZero(value) \/ GtMag(value, MaxMag(4))
    THEN SdkThrew("encryptUint32", "Value must be between 0 and 2^32-1 for uint32")
    ELSE sdkEncrypt("encryptUint32", inst, value, "uint32", le)

encryptBoolResult(inst, value, le) ==
    sdkEncrypt("encryptBool", inst,
               IF Truthy(value) THEN IntNum(<<1>>) ELSE IntNum(<<>>), "bool", le)

encryptAddressResult(inst, address, le) ==
    IF ~isAddress(address) THEN SdkThrew("encryptAddress", "Invalid Ethereum address")
    ELSE sdkEncrypt("encryptAddress", inst, getAddress(address), "address", le)

ErrNoSignerDecrypt == "Signer required for decryption"
ErrNoSignerReencrypt == "Signer required for reencryption"

\* new Uint16Array(bytes.buffer)[0] / new Uint32Array(bytes.buffer)[0]: the
\* constructor refuses a buffer whose length is no multiple of the element
\* size, and element 0 of an empty array is undefined
typedArrayFirst(bytes, w, le) ==
    IF Len(bytes) % w # 0 THEN Failed("RangeError")
    ELSE IF Len(bytes) = 0 THEN Returned(Undefined)
    ELSE LET b == IF le THEN SubSeq(bytes, 1, w) ELSE Reverse(SubSeq(bytes, 1, w))
         IN  Returned(IntNum(Canon([j \in 1..(w \div 2) |->
                                       b[2 * j - 1] + 256 * b[2 * j]])))

\* bytes[0]
firstByte(bytes) ==
    IF Len(bytes) = 0 THEN Returned(Undefined)
    ELSE Returned(IntNum(Canon(<<bytes[1]>>)))

\* ethers.hexlify(bytes): lower-case hex text, an address text when 20 bytes
hexlifyText(bytes) ==
    IF Len(bytes) = 20 THEN hexlifyAddress(bytes) ELSE Str("hexdata", bytes)

\* FhevmSDK.bytesToValue reading the integers little-endian on every platform
sdkBytesToValueLittleEndian(bytes, type, le) ==
    CASE type = "uint8" -> firstByte(bytes)
      [] type = "uint16" -> typedArrayFirst(bytes, 2, TRUE)
      [] type = "uint32" -> typedArrayFirst(bytes, 4, TRUE)
      [] type = "bool" -> firstByte(bytes)
      [] type = "address" -> Returned(hexlifyText(bytes))
      [] OTHER -> Failed("Unsupported type")

\* FhevmSDK.bytesToValue (private)
sdkBytesToValue(bytes, type, le) ==
    CASE type = "uint8" -> firstByte(bytes)
      [] type = "uint16" -> typedArrayFirst(bytes, 2, le)
      [] type = "uint32" -> typedArrayFirst(bytes, 4, le)
      [] type = "bool" -> firstByte(bytes)
      [] type = "address" -> Returned(hexlifyText(bytes))
      [] OTHER -> Failed("Unsupported type")

\* Uint8Array.prototype.slice(32)
slice32(data) == IF Len(data) <= 32 THEN <<>> ELSE SubSeq(data, 33, Len(data))

\* FhevmSDK.decrypt without the test of this.signer
sdkDecryptWithoutSigner(inst, encryptedData, type, le) ==
    LET data == handleBytes(encryptedData)
    IN  IF ~data.ok THEN Failed(data.err)
        ELSE sdkBytesToValue(slice32(data.bytes), type, le)

\* FhevmSDK.decrypt (private)
sdkDecrypt(inst, encryptedData, type, le) ==
    IF ~inst.signer THEN Failed(ErrNoSignerDecrypt)
    ELSE LET data == handleBytes(encryptedData)
         IN  IF ~data.ok THEN Failed(data.err)
             ELSE sdkBytesToValue(slice32(data.bytes), type, le)

\* the outcome record of a decrypt method that got `decoded` from decrypt
SdkDecoded(op, encryptedData, decoded) ==
    [SdkResult(op, decoded.ok, decoded.err, <<>>, <<>>, "-")
        EXCEPT !.val = decoded.val, !.input = encryptedData]

decryptUint8Result(inst, encryptedData, le) ==
    SdkDecoded("decryptUint8", encryptedData, sdkDecrypt(inst, encryptedData, "uint8", le))

decryptUint16Result(inst, encryptedData, le) ==
    SdkDecoded("decryptUint16", encryptedData, sdkDecrypt(inst, encryptedData, "uint16", le))

decryptUint32Result(inst, encryptedData, le) ==
    SdkDecoded("decryptUint32", encryptedData, sdkDecrypt(inst, encryptedData, "uint32", le))

\* value !== 0 on what decrypt returned
decryptBoolResult(inst, encryptedData, le) ==
    LET value == sdkDecrypt(inst, encryptedData, "bool", le)
    IN  SdkDecoded("decryptBool", encryptedData,
                   IF value.ok THEN Returned(Bool(value.val # IntNum(<<>>))) ELSE value)

decryptAddressResult(inst, encryptedData, le) ==
    SdkDecoded("decryptAddress", encryptedData,
               sdkDecrypt(inst, encryptedData, "address", le))

\* FhevmSDK.reencrypt
reencryptResult(inst, encryptedData) ==
    LET data == handleBytes(encryptedData)
    IN  IF ~inst.signer
        THEN [SdkThrew("reencrypt", ErrNoSignerReencrypt) EXCEPT !.input = encryptedData]
        ELSE IF ~data.ok
        THEN [SdkThrew("reencrypt", data.err) EXCEPT !.input = encryptedData]
        ELSE [SdkResult("reencrypt", TRUE, "", data.bytes, <<>>, "-")
                 EXCEPT !.input = encryptedData]

\* arguments handed to the encrypt methods
SdkValues ==
    {IntNum(m) : m \in {<<>>, <<5>>, <<255>>, <<256>>, <<4660>>, <<65535>>, Pow2(1),
                        <<4660, 65535>>, <<65535, 65535>>, Pow2(2)}}
        \cup {Num(TRUE, <<1>>, "int"), Num(FALSE, <<1>>, "half"), NaN,
              Big(FALSE, <<5>>), Bool(TRUE), Bool(FALSE),
              Str("decimal", <<5>>), Str("text", <<>>),
              AddrStr(AddrBytesA, "lower"), AddrStr(AddrBytesA, "checksum"),
              Str("badmix", AddrBytesA)}

------------------------------------------------------------------------------
(* Decryption authorization: EIP-712 signing and verification              *)
(*                                                                         *)
(* The typed-data hash is kept as the content it is computed from (the     *)
(* domain's chain id and contract, the message's handle, contract and      *)
(* user), and a signature as its signer's address with the hash it signs:  *)
(* recovery against that hash gives the signer, recovery against any other *)
(* hash, or from a signature with flipped bits, gives an address that is   *)
(* nobody's.                                                               *)

NoHash == [chainId |-> 0, verifyingContract |-> <<>>, handle |-> <<>>,
           contractAddress |-> <<>>, userAddress |-> <<>>]
Signature(shape, by, hash, flipped) ==
    [shape |-> shape, by |-> by, hash |-> hash, flipped |-> flipped]
NoSignature == Signature("absent", <<>>, NoHash, FALSE)
EmptySignature == Signature("empty", <<>>, NoHash, FALSE)
MalformedSignature == Signature("malformed", <<>>, NoHash, FALSE)

Request(handle, contractAddress, userAddress, signature) ==
    [handle |-> handle, contractAddress |-> contractAddress,
     userAddress |-> userAddress, signature |-> signature]

NoRequest == Request(Handle("bytes", <<>>), Undefined, Undefined, NoSignature)
NoSigner == [address |-> <<>>, provider |-> FALSE, chainId |-> 0]

JunkAddressBytes == [i \in 1..20 |-> 99]

\* typeof request.handle === 'string' ? request.handle : ethers.hexlify(request.handle)
\* and its reading as a `bytes` field: a text that is no hex data is refused
handleData(handle) ==
    IF handle.kind = "text" THEN Threw("invalid BytesLike value")
    ELSE Bytes(hexlify(handle.bytes))

\* TypedDataEncoder.hash(domain, types, message)
typedDataHash(chainId, request) ==
    LET data == handleData(request.handle)
    IN  IF ~isAddress(request.contractAddress) \/ ~isAddress(request.userAddress)
        THEN [ok |-> FALSE, hash |-> NoHash]
        ELSE IF ~data.ok THEN [ok |-> FALSE, hash |-> NoHash]
        ELSE [ok |-> TRUE,
              hash |-> [chainId |-> chainId,
                        verifyingContract |-> request.contractAddress.mag,
                        handle |-> data.bytes,
                        contractAddress |-> request.contractAddress.mag,
                        userAddress |-> request.userAddress.mag]]

\* (await signer.provider?.getNetwork())?.chainId || 1
signingChainId(signer) ==
    IF signer.provider /\ signer.chainId # 0 THEN signer.chainId ELSE 1

\* the chain id verifyDecryptionSignature puts in its domain
verifyingChainId == 1

createDecryptionSignature(request, signer) ==
    LET h == typedDataHash(signingChainId(signer), request)
    IN  IF ~h.ok THEN [ok |-> FALSE, signature |-> NoSignature]
        ELSE [ok |-> TRUE, signature |-> Signature("valid", signer.address, h.hash, FALSE)]

\* ethers.verifyTypedData(domain, types, message, signature)
verifyTypedData(chainId, request, signature) ==
    LET h == typedDataHash(chainId, request)
    IN  IF ~h.ok \/ signature.shape # "valid" THEN Failed("invalid argument")
        ELSE IF signature.hash = h.hash /\ ~signature.flipped
             THEN Returned(Str("checksum", signature.by))
             ELSE Returned(Str("checksum", JunkAddressBytes))

\* String.prototype.toLowerCase on an address text
toLowerCase(text) ==
    IF text.form \in HexForms THEN AddrStr(text.mag, "lower")
    ELSE Str("lowered", text.mag)

Verdict(ok, value) == [ok |-> ok, value |-> value]

\* the try block of verifyDecryptionSignature
verifyBody(request, expectedSigner) ==
    LET recovered == verifyTypedData(verifyingChainId, request, request.signature)
    IN  IF ~recovered.ok THEN Verdict(FALSE, FALSE)
        ELSE IF expectedSigner.k # "string" THEN Verdict(FALSE, FALSE)  \* TypeError
        ELSE Verdict(TRUE, toLowerCase(recovered.val) = toLowerCase(expectedSigner))

\* verifyDecryptionSignature without its try/catch
verifyWithoutCatch(request, expectedSigner) ==
    IF request.signature.shape \in {"absent", "empty"} THEN Verdict(TRUE, FALSE)
    ELSE verifyBody(request, expectedSigner)

verifyDecryptionSignature(request, expectedSigner) ==
    IF request.signature.shape \in {"absent", "empty"} THEN Verdict(TRUE, FALSE)
    ELSE LET body == verifyBody(request, expectedSigner)
         IN  IF body.ok THEN body ELSE Verdict(TRUE, FALSE)

Verified(request, expectedSigner, verdict) ==
    [called |-> TRUE, request |-> request, expectedSigner |-> expectedSigner,
     returned |-> verdict.ok, value |-> verdict.value]
NotVerified ==
    [called |-> FALSE, request |-> NoRequest, expectedSigner |-> Undefined,
     returned |-> FALSE, value |-> FALSE]

------------------------------------------------------------------------------
(* Mock decryptor and batch decoding *)

ErrTooShort == "Encrypted data too short"
ErrLengths == "Handles and types arrays must have same length"

\* extractValueBytes cutting one byte early (slice(publicKeyLength - 1))
extractValueBytesFromKeyEnd(encryptedData, publicKeyLength) ==
    IF Len(encryptedData) <= publicKeyLength THEN Threw(ErrTooShort)
    ELSE Bytes(SubSeq(encryptedData, publicKeyLength, Len(encryptedData)))

extractValueBytes(encryptedData, publicKeyLength) ==
    IF Len(encryptedData) <= publicKeyLength THEN Threw(ErrTooShort)
    ELSE Bytes(SubSeq(encryptedData, publicKeyLength + 1, Len(encryptedData)))

mockDecrypt(encryptedData, type, publicKeyLength) ==
    LET data == handleBytes(encryptedData)
    IN  IF ~data.ok THEN Failed(data.err)
        ELSE LET valueBytes == extractValueBytes(data.bytes, publicKeyLength)
             IN  IF ~valueBytes.ok THEN Failed(valueBytes.err)
                 ELSE bytesToValue(valueBytes.bytes, type)

\* decoded counts the mockDecrypt calls the batch made before it ended
BatchReturned(vals, decoded) ==
    [called |-> TRUE, ok |-> TRUE, err |-> "", vals |-> vals, decoded |-> decoded]
BatchThrew(msg, decoded) ==
    [called |-> TRUE, ok |-> FALSE, err |-> msg, vals |-> <<>>, decoded |-> decoded]
BatchIdle ==
    [called |-> FALSE, ok |-> FALSE, err |-> "", vals |-> <<>>, decoded |-> 0]

\* handles.map(...) stops at the first callback that throws
mapMockDecrypt(handles, types, publicKeyLength) ==
    LET each == [i \in 1..Len(handles) |->
                    mockDecrypt(handles[i], types[i], publicKeyLength)]
        bad == {i \in 1..Len(handles) : ~each[i].ok}
    IN  IF bad # {}
        THEN LET first == CHOOSE i \in bad : \A j \in bad : i <= j
             IN  BatchThrew(each[first].err, first)
        ELSE BatchReturned([i \in 1..Len(handles) |-> each[i].val], Len(handles))

\* batchDecrypt without the comparison of the two lengths: a missing
\* types[index] is undefined
batchDecryptNoLengthCheck(handles, types, publicKeyLength) ==
    LET typeAt == [i \in 1..Len(handles) |->
                      IF i <= Len(types) THEN types[i] ELSE "undefined"]
    IN  mapMockDecrypt(handles, typeAt, publicKeyLength)

\* batchDecrypt leaving out the items that fail to decode
batchDecryptSkipsFailures(handles, types, publicKeyLength) ==
    IF Len(handles) # Len(types) THEN BatchThrew(ErrLengths, 0)
    ELSE LET each == [i \in 1..Len(handles) |->
                         mockDecrypt(handles[i], types[i], publicKeyLength)]
             good == SelectSeq(each, LAMBDA r : r.ok)
         IN  BatchReturned([i \in 1..Len(good) |-> good[i].val], Len(handles))

batchDecrypt(handles, types, publicKeyLength) ==
    IF Len(handles) # Len(types) THEN BatchThrew(ErrLengths, 0)
    ELSE mapMockDecrypt(handles, types, publicKeyLength)

------------------------------------------------------------------------------
(* CulturalVoting: the outcome of a transaction *)

\* the arguments of a call, each function using the fields it has
NoArgs == [voter |-> "-", projectIds |-> <<>>, projectId |-> 0, score |-> 0,
           decryptedScores |-> <<>>]

\* The transaction that ran last.  n is its number among the transactions
\* sent to the contract, ok is FALSE when it reverted, err is the revert
\* message (a reverted transaction leaves nothing else behind); requested
\* tells whether it sent a decryption request (FHE.requestDecryption)
Txn(n, fn, sender, args, ok, err) ==
    [n |-> n, fn |-> fn, sender |-> sender, args |-> args, ok |-> ok, err |-> err,
     requested |-> FALSE]
NoTxn == Txn(0, "none", "-", NoArgs, TRUE, "")

------------------------------------------------------------------------------
(* RateLimiter *)

\* new Map(): no identifier has an entry
NoRequests == [identifier \in {} |-> <<>>]

LimiterResult(op, identifier, value) == [op |-> op, identifier |-> identifier, value |-> value]
LimiterIdle == LimiterResult("none", "-", FALSE)

\* this.requests.get(identifier) || []
requestsOf(map, identifier) ==
    IF identifier \in DOMAIN map THEN map[identifier] ELSE <<>>

\* requests.filter(time => now - time < this.window)
validRequests(times, now, windowMs) ==
    SelectSeq(times, LAMBDA time : now - time < windowMs)

\* the limit test letting one more request through (length > limit)
overLimit(valid, lim) == Len(valid) > lim

\* validRequests.length >= this.limit
atLimit(valid, lim) == Len(valid) >= lim

\* this.requests.set(identifier, times)
mapSet(map, identifier, times) ==
    [k \in DOMAIN map \cup {identifier} |-> IF k = identifier THEN times ELSE map[k]]

\* this.requests.delete(identifier)
mapDelete(map, identifier) ==
    [k \in DOMAIN map \ {identifier} |-> map[k]]

------------------------------------------------------------------------------
(* FhevmProvider: the values of its state *)

Null == [kind |-> "null", req |-> 0, network |-> "-"]

\* the FhevmSDK instance the init call number req returned for a network
Instance(req, network) == [kind |-> "instance", req |-> req, network |-> network]

\* the Error the init call number req threw
InitError(req, network) == [kind |-> "error", req |-> req, network |-> network]

\* a FhevmConfig: its network, and whether it carries a provider of its own
Config(network, provider) == [network |-> network, provider |-> provider]
NoConfig == Config("-", FALSE)

NoLatest == [req |-> 0, network |-> "-", outcome |-> "none"]

------------------------------------------------------------------------------
(* Codec harness: one value and one type, the calls applied to them *)

NotCalled == "(not called)"
IdleBytes == Threw(NotCalled)
IdleValue == Failed(NotCalled)
IdleEncrypted == EncryptThrew(NotCalled)

\* valueToBytes(cval, ctype)
Encode ==
    /\ cenc = IdleBytes
    /\ cenc' = valueToBytes(cval, ctype)
    /\ UNCHANGED <<cval, ctype, cdec, cmock, ckey, cagain>>
    /\ UNCHANGED notCodec

\* bytesToT(bytes) on the bytes valueToBytes returned
Decode ==
    /\ cenc.ok
    /\ cdec = IdleValue
    /\ cdec' = bytesToValue(cenc.bytes, ctype)
    /\ UNCHANGED <<cval, ctype, cenc, cmock, ckey, cagain>>
    /\ UNCHANGED notCodec

\* mockEncrypt(cval, ctype, ckey) with a 32-byte key
MockEncrypt ==
    /\ cmock = IdleEncrypted
    /\ cmock' = mockEncrypt(cval, ctype, ckey)
    /\ UNCHANGED <<cval, ctype, cenc, cdec, ckey, cagain>>
    /\ UNCHANGED notCodec

\* the same call once more, on the same value, type and key
MockEncryptAgain ==
    /\ cmock # IdleEncrypted
    /\ cagain = IdleEncrypted
    /\ cagain' = mockEncrypt(cval, ctype, ckey)
    /\ UNCHANGED <<cval, ctype, cenc, cdec, cmock, ckey>>
    /\ UNCHANGED notCodec

InitCodec ==
    /\ cval \in Values
    /\ ctype \in EncryptedType
    /\ cenc = IdleBytes
    /\ cdec = IdleValue
    /\ cmock = IdleEncrypted
    /\ ckey \in CodecKeys
    /\ cagain = IdleEncrypted
    /\ inputs = <<>>
    /\ publicKey = <<>>
    /\ bres = NoCall
    /\ returns = "none"
    /\ sdk = NoSdk
    /\ sdkOut = SdkIdle
    /\ littleEndian = TRUE
    /\ areq = NoRequest
    /\ asigner = NoSigner
    /\ aorigin = "unsigned"
    /\ averify = NotVerified
    /\ bhandles = <<>>
    /\ btypes = <<>>
    /\ bout = BatchIdle
    /\ owners = <<>>
    /\ caller = "-"
    /\ admin = "-"
    /\ currentVotingRound = 0
    /\ totalProjects = 0
    /\ projects = <<>>
    /\ votingRounds = <<>>
    /\ votes = <<>>
    /\ authorizedVoters = <<>>
    /\ txn = NoTxn
    /\ started = {}
    /\ ended = {}
    /\ accepted = <<>>
    /\ requests = NoRequests
    /\ limit = 0
    /\ window = 0
    /\ clock = 0
    /\ lout = LimiterIdle
    /\ granted = <<>>
    /\ lcalls = 0
    /\ decryption = <<>>
    /\ fhevm = Null
    /\ initState = "UNINITIALIZED"
    /\ error = Null
    /\ config = NoConfig
    /\ pendingInits = <<>>
    /\ latest = NoLatest

NextCodec == Encode \/ Decode \/ MockEncrypt \/ MockEncryptAgain

SpecCodec == InitCodec /\ [][NextCodec]_vars

------------------------------------------------------------------------------
(* Encrypted-input builder: the object and the calls made on it *)

MaxInputs == 3

\* arguments handed to the add methods: legal ones, out-of-range ones and
\* ones of the wrong runtime type
Args8 == {IntNum(<<5>>), IntNum(<<256>>)}
Args16 == {IntNum(<<1000>>)}
Args32 == {IntNum(<<4660, 1>>), Num(FALSE, <<1>>, "half")}
Args64 == {Big(FALSE, <<4660, 0, 65535>>), Bool(TRUE)}
ArgsBool == {Bool(TRUE)}
ArgsAddress == {AddrStr(AddrBytesA, "lower")}

add(value, type) ==
    /\ Len(inputs) < MaxInputs
    /\ inputs' = push(inputs, value, type)
    /\ bres' = AddReturned
    /\ UNCHANGED <<publicKey, returns>>
    /\ UNCHANGED notBuilder

add8 == \E value \in Args8 : add(value, "uint8")
add16 == \E value \in Args16 : add(value, "uint16")
add32 == \E value \in Args32 : add(value, "uint32")
add64 == \E value \in Args64 : add(value, "uint64")
addBool == \E value \in ArgsBool : add(value, "bool")
addAddress == \E value \in ArgsAddress : add(value, "address")

encrypt ==
    /\ bres' = encryptInputs(inputs, publicKey)
    /\ inputs' = inputsAfterEncrypt(inputs)
    /\ returns' = IF ~bres'.ok THEN returns
                  ELSE IF returns = "none" THEN "once" ELSE "again"
    /\ UNCHANGED publicKey
    /\ UNCHANGED notBuilder

Init ==
    /\ inputs = <<>>
    /\ publicKey \in {KeyFill1, KeyCount}
    /\ bres = NoCall
    /\ returns = "none"
    /\ cval = IntNum(<<>>)
    /\ ctype = "uint8"
    /\ cenc = IdleBytes
    /\ cdec = IdleValue
    /\ cmock = IdleEncrypted
    /\ sdk = NoSdk
    /\ sdkOut = SdkIdle
    /\ littleEndian = TRUE
    /\ areq = NoRequest
    /\ asigner = NoSigner
    /\ aorigin = "unsigned"
    /\ averify = NotVerified
    /\ bhandles = <<>>
    /\ btypes = <<>>
    /\ bout = BatchIdle
    /\ owners = <<>>
    /\ caller = "-"
    /\ admin = "-"
    /\ currentVotingRound = 0
    /\ totalProjects = 0
    /\ projects = <<>>
    /\ votingRounds = <<>>
    /\ votes = <<>>
    /\ authorizedVoters = <<>>
    /\ txn = NoTxn
    /\ started = {}
    /\ ended = {}
    /\ accepted = <<>>
    /\ ckey = <<>>
    /\ cagain = IdleEncrypted
    /\ requests = NoRequests
    /\ limit = 0
    /\ window = 0
    /\ clock = 0
    /\ lout = LimiterIdle
    /\ granted = <<>>
    /\ lcalls = 0
    /\ decryption = <<>>
    /\ fhevm = Null
    /\ initState = "UNINITIALIZED"
    /\ error = Null
    /\ config = NoConfig
    /\ pendingInits = <<>>
    /\ latest = NoLatest

Next == add8 \/ add16 \/ add32 \/ add64 \/ addBool \/ addAddress \/ encrypt

Spec == Init /\ [][Next]_vars

------------------------------------------------------------------------------
(* One builder shared by several tasks.  add and encrypt run to completion *)
(* once called (encrypt is async but awaits nothing), so the tasks' calls  *)
(* interleave call by call.                                                *)

Tasks == {"t1", "t2"}

SharedArgs8 == {IntNum(<<5>>), IntNum(<<7>>)}
SharedArgsBool == {Bool(TRUE)}

taskAdd(t, value, type) ==
    /\ Len(inputs) < MaxInputs
    /\ inputs' = push(inputs, value, type)
    /\ bres' = AddReturned
    /\ owners' = Append(owners, [by |-> t, value |-> value, type |-> type])
    /\ caller' = t
    /\ UNCHANGED <<publicKey, returns>>
    /\ UNCHANGED notShared

taskAdd8 == \E t \in Tasks, value \in SharedArgs8 : taskAdd(t, value, "uint8")
taskAddBool == \E t \in Tasks, value \in SharedArgsBool : taskAdd(t, value, "bool")

taskEncrypt ==
    \E t \in Tasks :
        /\ bres' = encryptInputs(inputs, publicKey)
        /\ inputs' = inputsAfterEncrypt(inputs)
        /\ returns' = IF ~bres'.ok THEN returns
                      ELSE IF returns = "none" THEN "once" ELSE "again"
        /\ caller' = t
        /\ UNCHANGED <<publicKey, owners>>
        /\ UNCHANGED notShared

InitShared ==
    /\ inputs = <<>>
    /\ publicKey = KeyFill1
    /\ bres = NoCall
    /\ returns = "none"
    /\ owners = <<>>
    /\ caller = "-"
    /\ cval = IntNum(<<>>)
    /\ ctype = "uint8"
    /\ cenc = IdleBytes
    /\ cdec = IdleValue
    /\ cmock = IdleEncrypted
    /\ sdk = NoSdk
    /\ sdkOut = SdkIdle
    /\ littleEndian = TRUE
    /\ areq = NoRequest
    /\ asigner = NoSigner
    /\ aorigin = "unsigned"
    /\ averify = NotVerified
    /\ bhandles = <<>>
    /\ btypes = <<>>
    /\ bout = BatchIdle
    /\ admin = "-"
    /\ currentVotingRound = 0
    /\ totalProjects = 0
    /\ projects = <<>>
    /\ votingRounds = <<>>
    /\ votes = <<>>
    /\ authorizedVoters = <<>>
    /\ txn = NoTxn
    /\ started = {}
    /\ ended = {}
    /\ accepted = <<>>
    /\ ckey = <<>>
    /\ cagain = IdleEncrypted
    /\ requests = NoRequests
    /\ limit = 0
    /\ window = 0
    /\ clock = 0
    /\ lout = LimiterIdle
    /\ granted = <<>>
    /\ lcalls = 0
    /\ decryption = <<>>
    /\ fhevm = Null
    /\ initState = "UNINITIALIZED"
    /\ error = Null
    /\ config = NoConfig
    /\ pendingInits = <<>>
    /\ latest = NoLatest

NextShared == taskAdd8 \/ taskAddBool \/ taskEncrypt

SpecShared == InitShared /\ [][NextShared]_vars

------------------------------------------------------------------------------
(* FhevmSDK: the calls made on the instance *)

\* static init(config): the instance, with the signer the configuration or
\* the browser wallet supplies (or none), after fetchPublicKey has run
init ==
    /\ ~sdk.made
    /\ \E signer \in BOOLEAN :
          sdk' = [made |-> TRUE, signer |-> signer, publicKey |-> fetchPublicKey]
    /\ UNCHANGED <<sdkOut, littleEndian>>
    /\ UNCHANGED notSdk

sdkCall(arg, result) ==
    /\ sdk.made
    /\ sdkOut' = [result EXCEPT !.arg = arg]
    /\ UNCHANGED <<sdk, littleEndian>>
    /\ UNCHANGED notSdk

encryptUint8 == \E v \in SdkValues : sdkCall(v, encryptUint8Result(sdk, v, littleEndian))
encryptUint16 == \E v \in SdkValues : sdkCall(v, encryptUint16Result(sdk, v, littleEndian))
encryptUint32 == \E v \in SdkValues : sdkCall(v, encryptUint32Result(sdk, v, littleEndian))
encryptBool == \E v \in SdkValues : sdkCall(v, encryptBoolResult(sdk, v, littleEndian))
encryptAddress == \E v \in SdkValues : sdkCall(v, encryptAddressResult(sdk, v, littleEndian))

EncryptOps == {"encryptUint8", "encryptUint16", "encryptUint32", "encryptBool",
               "encryptAddress"}
DecryptOps == {"decryptUint8", "decryptUint16", "decryptUint32", "decryptBool",
               "decryptAddress"}

\* encrypted data from elsewhere: the bare 32 key bytes, payloads of one,
\* three and nineteen bytes, two bytes in all, and a text that is no hex data
SdkInputs ==
    {Handle("bytes", KeyFill1),
     Handle("bytes", KeyFill1 \o <<7>>),
     Handle("bytes", KeyFill1 \o <<1, 2, 3>>),
     Handle("hex", KeyFill1 \o SubSeq(AddrBytesA, 1, 19)),
     Handle("bytes", <<1, 2>>),
     Handle("text", <<>>)}

\* the data the instance's encrypt call has just returned (`encrypted.data`)
OwnData == Handle("bytes", sdkOut.data)

SdkData == SdkInputs \cup {OwnData}

\* a method taking encrypted data, called with the instance's own data or
\* with data from elsewhere; resultOf gives the method's outcome on each
sdkDataCall(resultOf) ==
    /\ sdk.made
    /\ \/ /\ sdkOut.ok /\ sdkOut.op \in EncryptOps
          /\ sdkOut' = [resultOf[OwnData]
                           EXCEPT !.arg = sdkOut.arg, !.type = sdkOut.type]
       \/ \E encryptedData \in SdkInputs : sdkOut' = resultOf[encryptedData]
    /\ UNCHANGED <<sdk, littleEndian>>
    /\ UNCHANGED notSdk

decryptUint8 == sdkDataCall([d \in SdkData |-> decryptUint8Result(sdk, d, littleEndian)])
decryptUint16 == sdkDataCall([d \in SdkData |-> decryptUint16Result(sdk, d, littleEndian)])
decryptUint32 == sdkDataCall([d \in SdkData |-> decryptUint32Result(sdk, d, littleEndian)])
decryptBool == sdkDataCall([d \in SdkData |-> decryptBoolResult(sdk, d, littleEndian)])
decryptAddress == sdkDataCall([d \in SdkData |-> decryptAddressResult(sdk, d, littleEndian)])
reencrypt == sdkDataCall([d \in SdkData |-> reencryptResult(sdk, d)])

\* getContract(address, abi): a Contract run by the signer if there is one,
\* by the provider otherwise
getContract ==
    sdkCall(Undefined, [SdkResult("getContract", TRUE, "", <<>>, <<>>, "-")
                           EXCEPT !.val = Bool(sdk.signer)])

\* getProvider(), getSigner(), getNetwork()
getter ==
    \E name \in {"getProvider", "getSigner", "getNetwork"} :
        sdkCall(Undefined, [SdkResult(name, TRUE, "", <<>>, <<>>, "-")
                               EXCEPT !.val = Bool(name = "getSigner" => sdk.signer)])

InitSdk ==
    /\ sdk = NoSdk
    /\ sdkOut = SdkIdle
    /\ littleEndian \in BOOLEAN
    /\ cval = IntNum(<<>>)
    /\ ctype = "uint8"
    /\ cenc = IdleBytes
    /\ cdec = IdleValue
    /\ cmock = IdleEncrypted
    /\ inputs = <<>>
    /\ publicKey = <<>>
    /\ bres = NoCall
    /\ returns = "none"
    /\ areq = NoRequest
    /\ asigner = NoSigner
    /\ aorigin = "unsigned"
    /\ averify = NotVerified
    /\ bhandles = <<>>
    /\ btypes = <<>>
    /\ bout = BatchIdle
    /\ owners = <<>>
    /\ caller = "-"
    /\ admin = "-"
    /\ currentVotingRound = 0
    /\ totalProjects = 0
    /\ projects = <<>>
    /\ votingRounds = <<>>
    /\ votes = <<>>
    /\ authorizedVoters = <<>>
    /\ txn = NoTxn
    /\ started = {}
    /\ ended = {}
    /\ accepted = <<>>
    /\ ckey = <<>>
    /\ cagain = IdleEncrypted
    /\ requests = NoRequests
    /\ limit = 0
    /\ window = 0
    /\ clock = 0
    /\ lout = LimiterIdle
    /\ granted = <<>>
    /\ lcalls = 0
    /\ decryption = <<>>
    /\ fhevm = Null
    /\ initState = "UNINITIALIZED"
    /\ error = Null
    /\ config = NoConfig
    /\ pendingInits = <<>>
    /\ latest = NoLatest

NextSdk ==
    \/ init
    \/ encryptUint8 \/ encryptUint16 \/ encryptUint32 \/ encryptBool \/ encryptAddress
    \/ decryptUint8 \/ decryptUint16 \/ decryptUint32 \/ decryptBool \/ decryptAddress
    \/ reencrypt \/ getContract \/ getter

SpecSdk == InitSdk /\ [][NextSdk]_vars

------------------------------------------------------------------------------
(* Decryption authorization: a request, its signer and the calls on them *)

Handles == {Handle("bytes", <<1, 171>>), Handle("hex", <<1, 171>>), Handle("text", <<>>)}
Contracts == {AddrStr(AddrBytesDigits, "checksum"), Str("badmix", AddrBytesB)}
Users == {AddrStr(AddrBytesA, "lower"), AddrStr(AddrBytesA, "checksum"),
          AddrStr(AddrBytesB, "checksum")}
Signers ==
    {[address |-> a, provider |-> p, chainId |-> IF p THEN c ELSE 0] :
        a \in {AddrBytesA, AddrBytesB}, p \in BOOLEAN, c \in {1, 11155111}}
ExpectedSigners ==
    {AddrStr(AddrBytesA, "checksum"), AddrStr(AddrBytesA, "lower"),
     AddrStr(AddrBytesA, "upper"), Str("badmix", AddrBytesA),
     AddrStr(AddrBytesB, "checksum"), Undefined}

\* request.signature = await createDecryptionSignature(request, signer)
sign ==
    /\ aorigin = "unsigned"
    /\ LET made == createDecryptionSignature(areq, asigner)
       IN  IF made.ok
           THEN areq' = [areq EXCEPT !.signature = made.signature] /\ aorigin' = "signed"
           ELSE areq' = areq /\ aorigin' = "refused"
    /\ UNCHANGED <<asigner, averify>>
    /\ UNCHANGED notAuth

\* the signature text reaches the verifier damaged, or not at all
corruptSignature ==
    /\ aorigin = "signed"
    /\ \E damaged \in {[areq.signature EXCEPT !.flipped = TRUE],
                       MalformedSignature, EmptySignature, NoSignature} :
          areq' = [areq EXCEPT !.signature = damaged]
    /\ aorigin' = "damaged"
    /\ UNCHANGED <<asigner, averify>>
    /\ UNCHANGED notAuth

\* the signed request is presented with another userAddress
changeUser ==
    /\ aorigin = "signed"
    /\ \E user \in Users \ {areq.userAddress} :
          areq' = [areq EXCEPT !.userAddress = user]
    /\ aorigin' = "altered"
    /\ UNCHANGED <<asigner, averify>>
    /\ UNCHANGED notAuth

verify ==
    /\ \E expectedSigner \in ExpectedSigners :
          averify' = Verified(areq, expectedSigner,
                              verifyDecryptionSignature(areq, expectedSigner))
    /\ UNCHANGED <<areq, asigner, aorigin>>
    /\ UNCHANGED notAuth

InitAuth ==
    /\ areq \in {Request(h, c, u, NoSignature) : h \in Handles, c \in Contracts, u \in Users}
    /\ asigner \in Signers
    /\ aorigin = "unsigned"
    /\ averify = NotVerified
    /\ cval = IntNum(<<>>)
    /\ ctype = "uint8"
    /\ cenc = IdleBytes
    /\ cdec = IdleValue
    /\ cmock = IdleEncrypted
    /\ inputs = <<>>
    /\ publicKey = <<>>
    /\ bres = NoCall
    /\ returns = "none"
    /\ sdk = NoSdk
    /\ sdkOut = SdkIdle
    /\ littleEndian = TRUE
    /\ bhandles = <<>>
    /\ btypes = <<>>
    /\ bout = BatchIdle
    /\ owners = <<>>
    /\ caller = "-"
    /\ admin = "-"
    /\ currentVotingRound = 0
    /\ totalProjects = 0
    /\ projects = <<>>
    /\ votingRounds = <<>>
    /\ votes = <<>>
    /\ authorizedVoters = <<>>
    /\ txn = NoTxn
    /\ started = {}
    /\ ended = {}
    /\ accepted = <<>>
    /\ ckey = <<>>
    /\ cagain = IdleEncrypted
    /\ requests = NoRequests
    /\ limit = 0
    /\ window = 0
    /\ clock = 0
    /\ lout = LimiterIdle
    /\ granted = <<>>
    /\ lcalls = 0
    /\ decryption = <<>>
    /\ fhevm = Null
    /\ initState = "UNINITIALIZED"
    /\ error = Null
    /\ config = NoConfig
    /\ pendingInits = <<>>
    /\ latest = NoLatest

NextAuth == sign \/ corruptSignature \/ changeUser \/ verify

SpecAuth == InitAuth /\ [][NextAuth]_vars

------------------------------------------------------------------------------
(* Batch decoding: two arrays and the batchDecrypt call on them *)

MaxBatch == 2

\* handles: encrypted uint8 and uint32 values, an encrypted address as hex
\* text, the bare key without a payload, and a text that is no hex data
BatchHandles ==
    {Handle("bytes", KeyFill1 \o <<5>>),
     Handle("bytes", KeyFill1 \o <<52, 18, 1, 0>>),
     Handle("hex", KeyFill1 \o AddrBytesA),
     Handle("bytes", KeyFill1),
     Handle("text", <<>>)}

SeqsUpTo(S, n) == UNION {[1..m -> S] : m \in 0..n}

BatchDecrypt ==
    /\ ~bout.called
    /\ bout' = batchDecrypt(bhandles, btypes, 32)
    /\ UNCHANGED <<bhandles, btypes>>
    /\ UNCHANGED notBatch

InitBatch ==
    /\ bhandles \in SeqsUpTo(BatchHandles, MaxBatch)
    /\ btypes \in SeqsUpTo(EncryptedType, MaxBatch)
    /\ bout = BatchIdle
    /\ cval = IntNum(<<>>)
    /\ ctype = "uint8"
    /\ cenc = IdleBytes
    /\ cdec = IdleValue
    /\ cmock = IdleEncrypted
    /\ inputs = <<>>
    /\ publicKey = <<>>
    /\ bres = NoCall
    /\ returns = "none"
    /\ sdk = NoSdk
    /\ sdkOut = SdkIdle
    /\ littleEndian = TRUE
    /\ areq = NoRequest
    /\ asigner = NoSigner
    /\ aorigin = "unsigned"
    /\ averify = NotVerified
    /\ owners = <<>>
    /\ caller = "-"
    /\ admin = "-"
    /\ currentVotingRound = 0
    /\ totalProjects = 0
    /\ projects = <<>>
    /\ votingRounds = <<>>
    /\ votes = <<>>
    /\ authorizedVoters = <<>>
    /\ txn = NoTxn
    /\ started = {}
    /\ ended = {}
    /\ accepted = <<>>
    /\ ckey = <<>>
    /\ cagain = IdleEncrypted
    /\ requests = NoRequests
    /\ limit = 0
    /\ window = 0
    /\ clock = 0
    /\ lout = LimiterIdle
    /\ granted = <<>>
    /\ lcalls = 0
    /\ decryption = <<>>
    /\ fhevm = Null
    /\ initState = "UNINITIALIZED"
    /\ error = Null
    /\ config = NoConfig
    /\ pendingInits = <<>>
    /\ latest = NoLatest

NextBatch == BatchDecrypt

SpecBatch == InitBatch /\ [][NextBatch]_vars

------------------------------------------------------------------------------
(* Builder to batchDecrypt: values are added to a builder, encrypt() is    *)
(* called, and the handles of the result are handed to batchDecrypt with   *)
(* the types in insertion order                                            *)

MaxPipe == 2

\* the values handed to the add method of each type
PipeArgs ==
    [type \in EncryptedType |->
        CASE type = "uint8" -> {IntNum(<<>>), IntNum(<<255>>)}
          [] type = "uint16" -> {IntNum(<<1000>>)}
          [] type = "uint32" -> {IntNum(<<4660, 1>>)}
          [] type = "uint64" -> {Big(FALSE, <<4660, 0, 65535>>)}
          [] type = "bool" -> {Bool(TRUE), Bool(FALSE)}
          [] OTHER -> {AddrStr(AddrBytesA, "lower"), AddrStr(AddrBytesA, "checksum"),
                       AddrStr(AddrBytesDigits, "upper")}]

\* ethers.getBytes of a hex text, given by its digits: two digits a byte
getBytes(digits) ==
    IF Len(digits) % 2 # 0 THEN Threw("invalid BytesLike value")
    ELSE Bytes([i \in 1..(Len(digits) \div 2) |-> 16 * digits[2 * i - 1] + digits[2 * i]])

\* a handle of an EncryptionResult (the hex text of the data) as batchDecrypt takes it
handleOfText(digits) ==
    IF getBytes(digits).ok THEN Handle("hex", getBytes(digits).bytes)
    ELSE Handle("text", <<>>)

\* add8(value), add16(value), ..., addAddress(value)
pipeAdd ==
    \E type \in EncryptedType :
        \E value \in PipeArgs[type] :
            /\ Len(inputs) < MaxPipe
            /\ inputs' = push(inputs, value, type)
            /\ bres' = AddReturned
            /\ UNCHANGED <<publicKey, returns>>
            /\ UNCHANGED batchVars
            /\ UNCHANGED notPipeline

\* encrypt()
pipeEncrypt ==
    /\ bres' = encryptInputs(inputs, publicKey)
    /\ inputs' = inputsAfterEncrypt(inputs)
    /\ returns' = IF ~bres'.ok THEN returns
                  ELSE IF returns = "none" THEN "once" ELSE "again"
    /\ UNCHANGED publicKey
    /\ UNCHANGED batchVars
    /\ UNCHANGED notPipeline

\* batchDecrypt(result.handles, types) on the result encrypt() has just returned
pipeDecrypt ==
    /\ bres.op = "encrypt" /\ bres.ok
    /\ bhandles' = [i \in 1..Len(bres.handles) |-> handleOfText(bres.handles[i])]
    /\ btypes' = [i \in 1..Len(inputs) |-> inputs[i].type]
    /\ bout' = batchDecrypt(bhandles', btypes', 32)
    /\ UNCHANGED builderVars
    /\ UNCHANGED notPipeline

InitPipeline ==
    /\ inputs = <<>>
    /\ publicKey \in CodecKeys
    /\ bres = NoCall
    /\ returns = "none"
    /\ bhandles = <<>>
    /\ btypes = <<>>
    /\ bout = BatchIdle
    /\ cval = IntNum(<<>>)
    /\ ctype = "uint8"
    /\ cenc = IdleBytes
    /\ cdec = IdleValue
    /\ cmock = IdleEncrypted
    /\ ckey = <<>>
    /\ cagain = IdleEncrypted
    /\ sdk = NoSdk
    /\ sdkOut = SdkIdle
    /\ littleEndian = TRUE
    /\ areq = NoRequest
    /\ asigner = NoSigner
    /\ aorigin = "unsigned"
    /\ averify = NotVerified
    /\ owners = <<>>
    /\ caller = "-"
    /\ admin = "-"
    /\ currentVotingRound = 0
    /\ totalProjects = 0
    /\ projects = <<>>
    /\ votingRounds = <<>>
    /\ votes = <<>>
    /\ authorizedVoters = <<>>
    /\ txn = NoTxn
    /\ started = {}
    /\ ended = {}
    /\ accepted = <<>>
    /\ requests = NoRequests
    /\ limit = 0
    /\ window = 0
    /\ clock = 0
    /\ lout = LimiterIdle
    /\ granted = <<>>
    /\ lcalls = 0
    /\ decryption = <<>>
    /\ fhevm = Null
    /\ initState = "UNINITIALIZED"
    /\ error = Null
    /\ config = NoConfig
    /\ pendingInits = <<>>
    /\ latest = NoLatest

NextPipeline == pipeAdd \/ pipeEncrypt \/ pipeDecrypt

SpecPipeline == InitPipeline /\ [][NextPipeline]_vars

------------------------------------------------------------------------------
(* CulturalVoting: the contract's storage and its transactions.  The       *)
(* block.timestamp fields (proposalTime, startTime, endTime, timestamp),   *)
(* the project texts and the events are not kept; an encrypted score is    *)
(* kept as the score FHE.asEuint8 was given.                               *)

MaxProjects == 2
MaxRounds == 2
MaxTxns == 6

Accounts == {"a1", "a2"}
ProjectArgs == 1..(MaxProjects + 1)
RoundIds == 1..(MaxRounds + 1)
Scores == {0, 1, 10, 11}
ProjectIdLists == {<<>>, <<1>>, <<2>>, <<1, 2>>, <<MaxProjects + 1>>}
DecryptedScores == {<<>>, <<9>>, <<200, 100>>}

\* the zero values of the mappings
NoProject == [isActive |-> FALSE, proposer |-> "-"]
NoRound == [projectIds |-> <<>>, votingActive |-> FALSE, resultsRevealed |-> FALSE,
            voters |-> <<>>, winningProjectId |-> 0, maxScore |-> 0]
NoVote == [encryptedScore |-> 0, hasVoted |-> FALSE]

ErrNotAdmin == "Not authorized"
ErrNotVoter == "Not authorized to vote"
ErrNotActive == "Voting not active"
ErrScore == "Score must be between 1-10"
ErrNotInRound == "Project not in current round"
ErrAlreadyVoted == "Already voted for this project"

\* modifier onlyAdmin: anyone may pass
anyoneIsAdmin(sender) == TRUE

\* modifier onlyAdmin
onlyAdmin(sender) == sender = admin

\* modifier onlyAuthorizedVoter
onlyAuthorizedVoter(sender) == authorizedVoters[sender]

\* modifier onlyDuringVoting
onlyDuringVoting == votingRounds[currentVotingRound].votingActive

\* _isProjectInCurrentRound
isProjectInCurrentRound(projectId) ==
    LET round == votingRounds[currentVotingRound]
    IN  \E i \in 1..Len(round.projectIds) : round.projectIds[i] = projectId

\* the third require of submitVote, letting a second vote pass
notYetVotedIgnored(projectId, sender) == TRUE

\* the third require of submitVote
notYetVoted(projectId, sender) ==
    ~votes[<<currentVotingRound, projectId, sender>>].hasVoted

\* _addVoterToRound: the roster with the voter in it once
addVoterToRound(voters, voter) ==
    IF \E i \in 1..Len(voters) : voters[i] = voter THEN voters
    ELSE Append(voters, voter)

\* the votes cast for a project by the round's voters (the hasVoted test of
\* the loops in _requestResultsDecryption and processResults)
votesCast(round, projectId) ==
    Cardinality({j \in 1..Len(round.voters) :
                    votes[<<currentVotingRound, projectId, round.voters[j]>>].hasVoted})

RECURSIVE SumSeq(_)
SumSeq(q) == IF q = <<>> THEN 0 ELSE Head(q) + SumSeq(Tail(q))

\* totalVotes of _requestResultsDecryption
totalVotes(round) ==
    SumSeq([i \in 1..Len(round.projectIds) |-> votesCast(round, round.projectIds[i])])

\* the loops of processResults from project index i on; a uint8 sum above
\* 255 reverts (checked arithmetic)
RECURSIVE tally(_, _, _, _, _, _)
tally(round, decryptedScores, i, scoreIndex, winningProject, maxTotalScore) ==
    IF i > Len(round.projectIds)
    THEN [ok |-> TRUE, winningProject |-> winningProject, maxTotalScore |-> maxTotalScore]
    ELSE LET projectId == round.projectIds[i]
             cast == votesCast(round, projectId)
             left == Len(decryptedScores) - scoreIndex
             take == IF cast < left THEN cast ELSE left
             projectScore ==
                 SumSeq(SubSeq(decryptedScores, scoreIndex + 1, scoreIndex + take))
         IN  IF projectScore > 255
             THEN [ok |-> FALSE, winningProject |-> 0, maxTotalScore |-> 0]
             ELSE IF projectScore > maxTotalScore
             THEN tally(round, decryptedScores, i + 1, scoreIndex + take,
                        projectId, projectScore)
             ELSE tally(round, decryptedScores, i + 1, scoreIndex + take,
                        winningProject, maxTotalScore)

\* a transaction that reverts: the storage is as before
revert(fn, sender, args, msg) ==
    /\ txn' = Txn(txn.n + 1, fn, sender, NoArgs, FALSE, msg)
    /\ UNCHANGED <<storage, started, ended, accepted, decryption>>

\* _finalizeResults on the current round
finalizeResults(rounds, winningProject, maxScore) ==
    /\ votingRounds' = [rounds EXCEPT ![currentVotingRound] =
                           [@ EXCEPT !.winningProjectId = winningProject,
                                     !.maxScore = maxScore,
                                     !.resultsRevealed = TRUE]]
    /\ currentVotingRound' = currentVotingRound + 1

\* the scores cast for a project, in the order its voters joined the round
castScores(round, projectId) ==
    LET voted == SelectSeq(round.voters,
                     LAMBDA voter : votes[<<currentVotingRound, projectId, voter>>].hasVoted)
    IN  [j \in 1..Len(voted) |->
            votes[<<currentVotingRound, projectId, voted[j]>>].encryptedScore]

\* cts of _requestResultsDecryption: the votes in collection order
collect(round) ==
    Concat([i \in 1..Len(round.projectIds) |-> castScores(round, round.projectIds[i])])

\* FHE.requestDecryption(cts, this.processResults.selector): the request as
\* the gateway holds it until it calls back; projectIds and sums record what
\* was collected (the round's projects and the total cast for each)
DecryptionRequest(round) ==
    [round |-> currentVotingRound, cts |-> collect(round),
     projectIds |-> round.projectIds,
     sums |-> [i \in 1..Len(round.projectIds) |->
                  SumSeq(castScores(round, round.projectIds[i]))]]

proposeProjectBy(sender) ==
    /\ totalProjects < MaxProjects
    /\ totalProjects' = totalProjects + 1
    /\ projects' = [projects EXCEPT ![totalProjects + 1] =
                       [isActive |-> TRUE, proposer |-> "-"]]
    /\ txn' = Txn(txn.n + 1, "proposeProject", sender, NoArgs, TRUE, "")
    /\ UNCHANGED <<admin, currentVotingRound, votingRounds, votes, authorizedVoters>>
    /\ UNCHANGED <<started, ended, accepted, decryption>>
    /\ UNCHANGED notVoting

authorizeVoterBy(sender, voter) ==
    LET args == [NoArgs EXCEPT !.voter = voter]
    IN  /\ IF ~onlyAdmin(sender) THEN revert("authorizeVoter", sender, args, ErrNotAdmin)
           ELSE /\ authorizedVoters' = [authorizedVoters EXCEPT ![voter] = TRUE]
                /\ txn' = Txn(txn.n + 1, "authorizeVoter", sender, args, TRUE, "")
                /\ UNCHANGED <<admin, currentVotingRound, totalProjects, projects,
                               votingRounds, votes>>
                /\ UNCHANGED <<started, ended, accepted, decryption>>
        /\ UNCHANGED notVoting

revokeVoterBy(sender, voter) ==
    LET args == [NoArgs EXCEPT !.voter = voter]
    IN  /\ IF ~onlyAdmin(sender) THEN revert("revokeVoter", sender, args, ErrNotAdmin)
           ELSE /\ authorizedVoters' = [authorizedVoters EXCEPT ![voter] = FALSE]
                /\ txn' = Txn(txn.n + 1, "revokeVoter", sender, args, TRUE, "")
                /\ UNCHANGED <<admin, currentVotingRound, totalProjects, projects,
                               votingRounds, votes>>
                /\ UNCHANGED <<started, ended, accepted, decryption>>
        /\ UNCHANGED notVoting

startVotingRoundBy(sender, projectIds) ==
    LET args == [NoArgs EXCEPT !.projectIds = projectIds]
        fail(msg) == revert("startVotingRound", sender, args, msg)
    IN  /\ IF ~onlyAdmin(sender) THEN fail(ErrNotAdmin)
           ELSE IF votingRounds[currentVotingRound].votingActive
           THEN fail("Voting already active")
           ELSE IF Len(projectIds) = 0 THEN fail("No projects selected")
           ELSE IF \E i \in 1..Len(projectIds) : ~projects[projectIds[i]].isActive
           THEN fail("Project not active")
           ELSE /\ votingRounds' = [votingRounds EXCEPT ![currentVotingRound] =
                                       [NoRound EXCEPT !.projectIds = projectIds,
                                                       !.votingActive = TRUE]]
                /\ started' = started \cup {currentVotingRound}
                /\ txn' = Txn(txn.n + 1, "startVotingRound", sender, args, TRUE, "")
                /\ UNCHANGED <<admin, currentVotingRound, totalProjects, projects,
                               votes, authorizedVoters>>
                /\ UNCHANGED <<ended, accepted, decryption>>
        /\ UNCHANGED notVoting

submitVoteBy(sender, projectId, score) ==
    LET args == [NoArgs EXCEPT !.projectId = projectId, !.score = score]
        fail(msg) == revert("submitVote", sender, args, msg)
        key == <<currentVotingRound, projectId, sender>>
    IN  /\ IF ~onlyAuthorizedVoter(sender) THEN fail(ErrNotVoter)
           ELSE IF ~onlyDuringVoting THEN fail(ErrNotActive)
           ELSE IF ~(score >= 1 /\ score <= 10) THEN fail(ErrScore)
           ELSE IF ~isProjectInCurrentRound(projectId) THEN fail(ErrNotInRound)
           ELSE IF ~notYetVoted(projectId, sender) THEN fail(ErrAlreadyVoted)
           ELSE /\ votes' = [votes EXCEPT ![key] =
                                [encryptedScore |-> score, hasVoted |-> TRUE]]
                /\ votingRounds' = [votingRounds EXCEPT
                                       ![currentVotingRound].voters =
                                           addVoterToRound(@, sender)]
                /\ accepted' = [accepted EXCEPT ![key] = @ + 1]
                /\ txn' = Txn(txn.n + 1, "submitVote", sender, args, TRUE, "")
                /\ UNCHANGED <<admin, currentVotingRound, totalProjects, projects,
                               authorizedVoters>>
                /\ UNCHANGED <<started, ended, decryption>>
        /\ UNCHANGED notVoting

\* endVotingRound with _requestResultsDecryption: a round with votes waits
\* for the decryption callback, a round without votes is finalized at once
endVotingRoundBy(sender) ==
    LET fail(msg) == revert("endVotingRound", sender, NoArgs, msg)
        round == votingRounds[currentVotingRound]
        closed == [votingRounds EXCEPT ![currentVotingRound].votingActive = FALSE]
    IN  /\ currentVotingRound <= MaxRounds
        /\ IF ~onlyAdmin(sender) THEN fail(ErrNotAdmin)
           ELSE IF ~round.votingActive THEN fail(ErrNotActive)
           ELSE IF round.resultsRevealed THEN fail("Results already revealed")
           ELSE /\ IF totalVotes(round) > 0
                   THEN /\ votingRounds' = closed
                        /\ currentVotingRound' = currentVotingRound
                        /\ decryption' = Append(decryption, DecryptionRequest(round))
                        /\ txn' = [Txn(txn.n + 1, "endVotingRound", sender, NoArgs, TRUE, "")
                                      EXCEPT !.requested = TRUE]
                   ELSE /\ finalizeResults(closed, 0, 0)
                        /\ decryption' = decryption
                        /\ txn' = Txn(txn.n + 1, "endVotingRound", sender, NoArgs, TRUE, "")
                /\ ended' = ended \cup {currentVotingRound}
                /\ UNCHANGED <<admin, totalProjects, projects, votes, authorizedVoters>>
                /\ UNCHANGED <<started, accepted>>
        /\ UNCHANGED notVoting

\* processResults(requestId, decryptedScores, signatures); answered is the
\* gateway's queue once the call has returned
processResultsBy(sender, decryptedScores, answered) ==
    LET args == [NoArgs EXCEPT !.decryptedScores = decryptedScores]
        result == tally(votingRounds[currentVotingRound], decryptedScores, 1, 0, 0, 0)
    IN  /\ currentVotingRound <= MaxRounds
        /\ IF ~result.ok THEN revert("processResults", sender, args, "Panic(0x11)")
           ELSE /\ finalizeResults(votingRounds, result.winningProject,
                                   result.maxTotalScore)
                /\ decryption' = answered
                /\ txn' = Txn(txn.n + 1, "processResults", sender, args, TRUE, "")
                /\ UNCHANGED <<admin, totalProjects, projects, votes, authorizedVoters>>
                /\ UNCHANGED <<started, ended, accepted>>
        /\ UNCHANGED notVoting

\* the sequence without its k-th element
Without(q, k) == SubSeq(q, 1, k - 1) \o SubSeq(q, k + 1, Len(q))

proposeProject ==
    \E sender \in Accounts : txn.n < MaxTxns /\ proposeProjectBy(sender)

authorizeVoter ==
    \E sender \in Accounts, voter \in Accounts :
        txn.n < MaxTxns /\ authorizeVoterBy(sender, voter)

revokeVoter ==
    \E sender \in Accounts, voter \in Accounts :
        txn.n < MaxTxns /\ revokeVoterBy(sender, voter)

startVotingRound ==
    \E sender \in Accounts, projectIds \in ProjectIdLists :
        txn.n < MaxTxns /\ startVotingRoundBy(sender, projectIds)

submitVote ==
    \E sender \in Accounts, projectId \in ProjectArgs, score \in Scores :
        txn.n < MaxTxns /\ submitVoteBy(sender, projectId, score)

endVotingRound ==
    \E sender \in Accounts : txn.n < MaxTxns /\ endVotingRoundBy(sender)

\* processResults called by any account, with scores of its choosing
processResults ==
    \E sender \in Accounts, decryptedScores \in DecryptedScores :
        txn.n < MaxTxns /\ processResultsBy(sender, decryptedScores, decryption)

\* the gateway answers one of the requests it holds: it calls processResults
\* with the decrypted cts of the request (a call that reverts leaves the
\* request with the gateway)
deliverResults ==
    \E k \in 1..Len(decryption) :
        txn.n < MaxTxns /\ processResultsBy("oracle", decryption[k].cts, Without(decryption, k))

\* the state the constructor leaves
InitVoting ==
    /\ admin = "a1"
    /\ currentVotingRound = 1
    /\ totalProjects = 0
    /\ projects = [id \in ProjectArgs |-> NoProject]
    /\ votingRounds = [r \in RoundIds |-> NoRound]
    /\ votes = [k \in RoundIds \X ProjectArgs \X Accounts |-> NoVote]
    /\ authorizedVoters = [a \in Accounts |-> a = admin]
    /\ txn = NoTxn
    /\ started = {}
    /\ ended = {}
    /\ accepted = [k \in RoundIds \X ProjectArgs \X Accounts |-> 0]
    /\ decryption = <<>>
    /\ cval = IntNum(<<>>)
    /\ ctype = "uint8"
    /\ cenc = IdleBytes
    /\ cdec = IdleValue
    /\ cmock = IdleEncrypted
    /\ ckey = <<>>
    /\ cagain = IdleEncrypted
    /\ inputs = <<>>
    /\ publicKey = <<>>
    /\ bres = NoCall
    /\ returns = "none"
    /\ sdk = NoSdk
    /\ sdkOut = SdkIdle
    /\ littleEndian = TRUE
    /\ areq = NoRequest
    /\ asigner = NoSigner
    /\ aorigin = "unsigned"
    /\ averify = NotVerified
    /\ bhandles = <<>>
    /\ btypes = <<>>
    /\ bout = BatchIdle
    /\ owners = <<>>
    /\ caller = "-"
    /\ requests = NoRequests
    /\ limit = 0
    /\ window = 0
    /\ clock = 0
    /\ lout = LimiterIdle
    /\ granted = <<>>
    /\ lcalls = 0
    /\ fhevm = Null
    /\ initState = "UNINITIALIZED"
    /\ error = Null
    /\ config = NoConfig
    /\ pendingInits = <<>>
    /\ latest = NoLatest

NextVoting ==
    \/ proposeProject \/ authorizeVoter \/ revokeVoter \/ startVotingRound
    \/ submitVote \/ endVotingRound \/ processResults \/ deliverResults

SpecVoting == InitVoting /\ [][NextVoting]_vars

------------------------------------------------------------------------------
(* CulturalVoting with many voters: one project, one round.  The admin     *)
(* authorizes the voters one after the other, each voter votes once for    *)
(* project 1, the voters coming in the order of their names and of         *)
(* non-increasing scores; the admin ends the round and the gateway calls   *)
(* back.                                                                   *)

MaxVoters == 26

CrowdNames ==
    <<"v01", "v02", "v03", "v04", "v05", "v06", "v07", "v08", "v09",
      "v10", "v11", "v12", "v13", "v14", "v15", "v16", "v17", "v18",
      "v19", "v20", "v21", "v22", "v23", "v24", "v25", "v26", "v27",
      "v28", "v29", "v30">>

Crowd == {CrowdNames[k] : k \in 1..MaxVoters}
CrowdAccounts == {"a1"} \cup Crowd
CrowdScores == {1, 10}
MaxCrowdTxns == 2 * MaxVoters + 6

crowdPropose ==
    /\ totalProjects = 0
    /\ proposeProjectBy("a1")

crowdAuthorize ==
    \E k \in 1..MaxVoters :
        /\ k > 1 => authorizedVoters[CrowdNames[k - 1]]
        /\ ~authorizedVoters[CrowdNames[k]]
        /\ authorizeVoterBy("a1", CrowdNames[k])

crowdStart ==
    /\ totalProjects = 1
    /\ currentVotingRound = 1
    /\ 1 \notin started
    /\ startVotingRoundBy("a1", <<1>>)

crowdVote ==
    \E k \in 1..MaxVoters, score \in CrowdScores :
        LET voters == votingRounds[currentVotingRound].voters
        IN  /\ onlyDuringVoting
            /\ Len(voters) = k - 1
            /\ authorizedVoters[CrowdNames[k]]
            /\ k > 1 => score <= votes[<<currentVotingRound, 1, voters[k - 1]>>].encryptedScore
            /\ submitVoteBy(CrowdNames[k], 1, score)

crowdEnd ==
    /\ onlyDuringVoting
    /\ endVotingRoundBy("a1")

\* the gateway's callback for a request it holds
crowdDeliver ==
    \E k \in 1..Len(decryption) :
        /\ txn.n < MaxCrowdTxns
        /\ processResultsBy("oracle", decryption[k].cts, Without(decryption, k))

InitCrowd ==
    /\ admin = "a1"
    /\ currentVotingRound = 1
    /\ totalProjects = 0
    /\ projects = [id \in ProjectArgs |-> NoProject]
    /\ votingRounds = [r \in RoundIds |-> NoRound]
    /\ votes = [k \in RoundIds \X ProjectArgs \X CrowdAccounts |-> NoVote]
    /\ authorizedVoters = [a \in CrowdAccounts |-> a = admin]
    /\ txn = NoTxn
    /\ started = {}
    /\ ended = {}
    /\ accepted = [k \in RoundIds \X ProjectArgs \X CrowdAccounts |-> 0]
    /\ decryption = <<>>
    /\ cval = IntNum(<<>>)
    /\ ctype = "uint8"
    /\ cenc = IdleBytes
    /\ cdec = IdleValue
    /\ cmock = IdleEncrypted
    /\ ckey = <<>>
    /\ cagain = IdleEncrypted
    /\ inputs = <<>>
    /\ publicKey = <<>>
    /\ bres = NoCall
    /\ returns = "none"
    /\ sdk = NoSdk
    /\ sdkOut = SdkIdle
    /\ littleEndian = TRUE
    /\ areq = NoRequest
    /\ asigner = NoSigner
    /\ aorigin = "unsigned"
    /\ averify = NotVerified
    /\ bhandles = <<>>
    /\ btypes = <<>>
    /\ bout = BatchIdle
    /\ owners = <<>>
    /\ caller = "-"
    /\ requests = NoRequests
    /\ limit = 0
    /\ window = 0
    /\ clock = 0
    /\ lout = LimiterIdle
    /\ granted = <<>>
    /\ lcalls = 0
    /\ fhevm = Null
    /\ initState = "UNINITIALIZED"
    /\ error = Null
    /\ config = NoConfig
    /\ pendingInits = <<>>
    /\ latest = NoLatest

NextCrowd ==
    \/ crowdPropose \/ crowdAuthorize \/ crowdStart \/ crowdVote \/ crowdEnd
    \/ crowdDeliver

SpecCrowd == InitCrowd /\ [][NextCrowd]_vars

------------------------------------------------------------------------------
(* RateLimiter harness: one limiter, its callers and the clock *)

MaxClock == 4
MaxCalls == 5
Identifiers == {"u1", "u2"}
Limits == {0, 1, 2}
Windows == {0, 1, 2, 3}

\* check(identifier)
check(identifier) ==
    /\ lcalls < MaxCalls
    /\ LET now == clock
           valid == validRequests(requestsOf(requests, identifier), now, window)
       IN  IF atLimit(valid, limit)
           THEN /\ lout' = LimiterResult("check", identifier, FALSE)
                /\ UNCHANGED <<requests, granted>>
           ELSE /\ requests' = mapSet(requests, identifier, Append(valid, now))
                /\ granted' = [granted EXCEPT ![identifier] = Append(@, now)]
                /\ lout' = LimiterResult("check", identifier, TRUE)
    /\ lcalls' = lcalls + 1
    /\ UNCHANGED <<limit, window, clock>>
    /\ UNCHANGED notLimiter

\* reset(identifier)
reset(identifier) ==
    /\ lcalls < MaxCalls
    /\ requests' = mapDelete(requests, identifier)
    /\ granted' = [granted EXCEPT ![identifier] = <<>>]
    /\ lout' = LimiterResult("reset", identifier, FALSE)
    /\ lcalls' = lcalls + 1
    /\ UNCHANGED <<limit, window, clock>>
    /\ UNCHANGED notLimiter

\* time passes: Date.now() never goes back
tick ==
    /\ clock < MaxClock
    /\ clock' = clock + 1
    /\ UNCHANGED <<requests, limit, window, lout, granted, lcalls>>
    /\ UNCHANGED notLimiter

InitLimiter ==
    /\ requests = NoRequests
    /\ limit \in Limits
    /\ window \in Windows
    /\ clock = 0
    /\ lout = LimiterIdle
    /\ granted = [identifier \in Identifiers |-> <<>>]
    /\ lcalls = 0
    /\ cval = IntNum(<<>>)
    /\ ctype = "uint8"
    /\ cenc = IdleBytes
    /\ cdec = IdleValue
    /\ cmock = IdleEncrypted
    /\ ckey = <<>>
    /\ cagain = IdleEncrypted
    /\ inputs = <<>>
    /\ publicKey = <<>>
    /\ bres = NoCall
    /\ returns = "none"
    /\ sdk = NoSdk
    /\ sdkOut = SdkIdle
    /\ littleEndian = TRUE
    /\ areq = NoRequest
    /\ asigner = NoSigner
    /\ aorigin = "unsigned"
    /\ averify = NotVerified
    /\ bhandles = <<>>
    /\ btypes = <<>>
    /\ bout = BatchIdle
    /\ owners = <<>>
    /\ caller = "-"
    /\ admin = "-"
    /\ currentVotingRound = 0
    /\ totalProjects = 0
    /\ projects = <<>>
    /\ votingRounds = <<>>
    /\ votes = <<>>
    /\ authorizedVoters = <<>>
    /\ txn = NoTxn
    /\ started = {}
    /\ ended = {}
    /\ accepted = <<>>
    /\ decryption = <<>>
    /\ fhevm = Null
    /\ initState = "UNINITIALIZED"
    /\ error = Null
    /\ config = NoConfig
    /\ pendingInits = <<>>
    /\ latest = NoLatest

NextLimiter ==
    \/ \E identifier \in Identifiers : check(identifier)
    \/ \E identifier \in Identifiers : reset(identifier)
    \/ tick

SpecLimiter == InitLimiter /\ [][NextLimiter]_vars

------------------------------------------------------------------------------
(* FhevmProvider: the component, its effect, reinit and the FhevmSDK.init  *)
(* calls in flight.  An init call of a config without a provider awaits    *)
(* the browser wallet (getSigner) and settles whenever the wallet answers; *)
(* an init call of a config with a provider awaits nothing outside and has *)
(* settled before the next event is handled.                               *)

MaxInits == 3
Networks == {"sepolia", "localhost"}
Configs == {Config(network, provider) : network \in Networks, provider \in BOOLEAN}

\* initializeSdk(cfg) up to its await: the two state updates and the
\* FhevmSDK.init(cfg) call
initializeSdk(cfg) ==
    /\ latest.req < MaxInits
    /\ \A k \in 1..Len(pendingInits) : ~pendingInits[k].provider
    /\ initState' = "INITIALIZING"
    /\ error' = Null
    /\ pendingInits' = Append(pendingInits,
                              [req |-> latest.req + 1, network |-> cfg.network,
                               provider |-> cfg.provider])
    /\ latest' = [req |-> latest.req + 1, network |-> cfg.network, outcome |-> "pending"]
    /\ UNCHANGED fhevm

\* the effect: after the first render and after a render with another
\* network (the dependencies are config.network and config.rpcUrl)
useEffect ==
    \E cfg \in Configs :
        /\ cfg.network # config.network
        /\ config' = cfg
        /\ initializeSdk(cfg)
        /\ UNCHANGED notProvider

\* reinit(newConfig), called by a descendant of the mounted provider
reinit ==
    \E newConfig \in Configs :
        /\ config # NoConfig
        /\ initializeSdk(newConfig)
        /\ UNCHANGED config
        /\ UNCHANGED notProvider

\* the latest request with the outcome of call number req recorded in it
settled(req, outcome) ==
    IF latest.req = req THEN [latest EXCEPT !.outcome = outcome] ELSE latest

\* an init call returns its instance: the code after the await runs
initResolves ==
    \E k \in 1..Len(pendingInits) :
        LET call == pendingInits[k]
        IN  /\ fhevm' = Instance(call.req, call.network)
            /\ initState' = "INITIALIZED"
            /\ pendingInits' = Without(pendingInits, k)
            /\ latest' = settled(call.req, "resolved")
            /\ UNCHANGED <<error, config>>
            /\ UNCHANGED notProvider

\* an init call throws: the catch block runs
initRejects ==
    \E k \in 1..Len(pendingInits) :
        LET call == pendingInits[k]
        IN  /\ error' = InitError(call.req, call.network)
            /\ initState' = "FAILED"
            /\ pendingInits' = Without(pendingInits, k)
            /\ latest' = settled(call.req, "rejected")
            /\ UNCHANGED <<fhevm, config>>
            /\ UNCHANGED notProvider

InitProvider ==
    /\ fhevm = Null
    /\ initState = "UNINITIALIZED"
    /\ error = Null
    /\ config = NoConfig
    /\ pendingInits = <<>>
    /\ latest = NoLatest
    /\ cval = IntNum(<<>>)
    /\ ctype = "uint8"
    /\ cenc = IdleBytes
    /\ cdec = IdleValue
    /\ cmock = IdleEncrypted
    /\ ckey = <<>>
    /\ cagain = IdleEncrypted
    /\ inputs = <<>>
    /\ publicKey = <<>>
    /\ bres = NoCall
    /\ returns = "none"
    /\ sdk = NoSdk
    /\ sdkOut = SdkIdle
    /\ littleEndian = TRUE
    /\ areq = NoRequest
    /\ asigner = NoSigner
    /\ aorigin = "unsigned"
    /\ averify = NotVerified
    /\ bhandles = <<>>
    /\ btypes = <<>>
    /\ bout = BatchIdle
    /\ owners = <<>>
    /\ caller = "-"
    /\ admin = "-"
    /\ currentVotingRound = 0
    /\ totalProjects = 0
    /\ projects = <<>>
    /\ votingRounds = <<>>
    /\ votes = <<>>
    /\ authorizedVoters = <<>>
    /\ txn = NoTxn
    /\ started = {}
    /\ ended = {}
    /\ accepted = <<>>
    /\ requests = NoRequests
    /\ limit = 0
    /\ window = 0
    /\ clock = 0
    /\ lout = LimiterIdle
    /\ granted = <<>>
    /\ lcalls = 0
    /\ decryption = <<>>

NextProvider == useEffect \/ reinit \/ initResolves \/ initRejects

SpecProvider == InitProvider /\ [][NextProvider]_vars

------------------------------------------------------------------------------
(* Legal values of each type, stated from the data model: the integer      *)
(* types hold the integers of [0, 2^w - 1] in their native representation  *)
(* (number up to 32 bits, bigint for 64), bool holds the two booleans and  *)
(* address a 20-byte hex text in any accepted letter case.                 *)

IsInteger(v) == (v.k = "number" /\ v.frac = "int") \/ v.k = "bigint"

FitsBytes(v, w) ==
    /\ ~v.neg
    /\ Len(v.mag) <= (IF w = 1 THEN 1 ELSE w \div 2)
    /\ (w = 1 /\ v.mag # <<>>) => v.mag[1] <= 255

IntWidth(type) ==
    CASE type = "uint8" -> 1 [] type = "uint16" -> 2
      [] type = "uint32" -> 4 [] type = "uint64" -> 8 [] OTHER -> 0

IntegerTypes == {"uint8", "uint16", "uint32", "uint64"}

NativeKind(type) == IF type = "uint64" THEN "bigint" ELSE "number"

LegalValue(v, type) ==
    CASE type \in IntegerTypes ->
           IsInteger(v) /\ v.k = NativeKind(type) /\ FitsBytes(v, IntWidth(type))
      [] type = "bool" -> v.k = "boolean"
      [] type = "address" -> v.k = "string" /\ v.form \in {"checksum", "lower", "upper"}
      [] OTHER -> FALSE

------------------------------------------------------------------------------
(* Claims on the codec (specification SpecCodec) *)

\* C1 (as stated): for every type T and every legal value v of T, decoding
\* the encoding gives back v itself: bytesToT(valueToBytes(v, T)) = v.
C1_RoundTripExact ==
    (cdec # IdleValue /\ LegalValue(cval, ctype)) => (cdec.ok /\ cdec.val = cval)

\* C1 (amended): encoding a legal value succeeds, and decoding the encoding
\* gives back v for the integer types and bool; for an address it gives the
\* checksummed spelling of v, which is v only when v was written checksummed.
C1_RoundTripUpToChecksum ==
    /\ (cenc # IdleBytes /\ LegalValue(cval, ctype)) => cenc.ok
    /\ (cdec # IdleValue /\ LegalValue(cval, ctype)) =>
          /\ cdec.ok
          /\ cdec.val = IF ctype = "address" THEN Str("checksum", cval.mag) ELSE cval

\* a lower-case address was encoded and decoded, and came back respelled
C1_Witness ==
    /\ ctype = "address" /\ cval.k = "string" /\ cval.form = "lower"
    /\ cdec.ok /\ cdec.val # cval /\ cdec.val.mag = cval.mag

\* C6: valueToBytes, and with it mockEncrypt, throws the type's validation
\* error and yields no bytes for every integer outside [0, 2^w - 1], and
\* accepts every integer of the range (in the type's native representation),
\* both bounds included.
C6_RangeRejection ==
    (ctype \in IntegerTypes /\ IsInteger(cval)) =>
        LET inside == FitsBytes(cval, IntWidth(ctype))
            native == cval.k = NativeKind(ctype)
        IN  /\ (cenc # IdleBytes /\ ~inside) =>
                  (~cenc.ok /\ cenc.err \in ValidationErrors /\ cenc.bytes = <<>>)
            /\ (cmock # IdleEncrypted /\ ~inside) =>
                  /\ ~cmock.ok /\ cmock.err \in ValidationErrors
                  /\ cmock.data = <<>> /\ cmock.proof = <<>>
            /\ (cenc # IdleBytes /\ inside /\ native) =>
                  (cenc.ok /\ Len(cenc.bytes) = IntWidth(ctype))
            /\ (cmock # IdleEncrypted /\ inside /\ native) => cmock.ok

\* 2^32 was handed to valueToBytes and mockEncrypt as a uint32 and rejected
C6_Witness ==
    /\ ctype = "uint32" /\ cval = IntNum(Pow2(2))
    /\ cenc.err = ErrUint32 /\ cmock.err = ErrUint32

------------------------------------------------------------------------------
(* Claims on the builder (specification Spec) *)

\* C7 (as stated): the builder is finalized exactly once: after encrypt()
\* has returned a result, no second encrypt() on the same builder returns one.
C7_FinalizedOnce == returns # "again"

\* C7 (amended): encrypt() does not finalize the builder: it leaves the
\* accumulated inputs as they were, and a second encrypt() that follows a
\* successful one is accepted and returns an equal result.
C7_EncryptRepeatable ==
    [][encrypt =>
          /\ inputs' = inputs
          /\ (bres.op = "encrypt" /\ bres.ok) => (bres' = bres /\ returns' = "again")]_vars

\* a second encrypt() on the same builder has returned a result
C7_Witness == returns = "again" /\ bres.op = "encrypt" /\ bres.ok

\* C8: encrypt() on a builder holding n >= 1 legal values returns n handles,
\* handles[i] the hex text of mockEncrypt(value_i, type_i, key).data, an
\* inputProof that is the n 64-byte proofs in insertion order (64 * n bytes),
\* and as type the type of the first accumulated value.
C8_EncryptResult ==
    LET n == Len(inputs)
        each == [i \in 1..n |-> mockEncrypt(inputs[i].value, inputs[i].type, publicKey)]
    IN  /\ (bres.op = "encrypt" /\ n >= 1
              /\ \A i \in 1..n : LegalValue(inputs[i].value, inputs[i].type)) => bres.ok
        /\ (bres.op = "encrypt" /\ bres.ok) =>
              /\ Len(bres.handles) = n
              /\ \A i \in 1..n : bres.handles[i] = hexlify(each[i].data)
              /\ Len(bres.inputProof) = 64 * n
              /\ \A i \in 1..n :
                    SubSeq(bres.inputProof, 64 * (i - 1) + 1, 64 * i) = each[i].proof
              /\ bres.type = inputs[1].type

\* three legal values of three different types were encrypted together
C8_Witness ==
    /\ bres.op = "encrypt" /\ bres.ok /\ Len(inputs) = 3
    /\ \A i \in 1..3 : LegalValue(inputs[i].value, inputs[i].type)
    /\ inputs[1].type = "uint8" /\ inputs[2].type = "uint32" /\ inputs[3].type = "bool"

\* C9 (as stated): an illegal accumulated value, wherever it sits, makes
\* encrypt() fail as a whole with a validation error, without handles or proof.
C9_IllegalFailsEncrypt ==
    (bres.op = "encrypt" /\ \E i \in 1..Len(inputs) :
                               ~LegalValue(inputs[i].value, inputs[i].type)) =>
        /\ ~bres.ok /\ bres.err \in ValidationErrors
        /\ bres.handles = <<>> /\ bres.inputProof = <<>>

\* C10: encrypt() on a builder without inputs fails with 'No inputs to
\* encrypt' and returns neither handles nor proof; once a value has been
\* added, encrypt() never fails for that reason.
C10_EmptyBuilder ==
    bres.op = "encrypt" =>
        /\ (Len(inputs) = 0) =>
              /\ ~bres.ok /\ bres.err = ErrNoInputs
              /\ bres.handles = <<>> /\ bres.inputProof = <<>>
        /\ (Len(inputs) >= 1) => bres.err # ErrNoInputs

\* encrypt() was called on the empty builder and failed
C10_Witness == bres.op = "encrypt" /\ inputs = <<>> /\ bres.err = ErrNoInputs

------------------------------------------------------------------------------
(* Claims on the decryption authorization (specification SpecAuth) *)

\* the request the last verify call was given, less its signature
VerifiedUnsigned == [averify.request EXCEPT !.signature = NoSignature]

\* C2 (as stated): whatever network the signer's provider is on, verifying a
\* request that carries the signature createDecryptionSignature(request, A)
\* returned, against A's address, returns true.
C2_SignVerifyRoundTrip ==
    LET made == createDecryptionSignature(VerifiedUnsigned, asigner)
    IN  (/\ averify.called
         /\ made.ok
         /\ averify.request.signature = made.signature
         /\ averify.expectedSigner = Str("checksum", asigner.address))
        => (averify.returned /\ averify.value = TRUE)

\* C3 (as stated): verifyDecryptionSignature returns true only for a request
\* whose userAddress is, up to letter case, the address that produced the
\* signature.
C3_ValidOnlyForClaimedUser ==
    (averify.called /\ averify.returned /\ averify.value = TRUE) =>
        /\ averify.request.signature.shape = "valid"
        /\ averify.request.userAddress.mag = averify.request.signature.by

\* C4: verifyDecryptionSignature never throws; it returns false when the
\* signature is missing, malformed or corrupted or when the recovered signer
\* differs from expectedSigner, and true only when the recovered signer is
\* expectedSigner up to letter case.
C4_VerifyIsBoolean ==
    averify.called =>
        LET sig == averify.request.signature
            recovered == verifyTypedData(verifyingChainId, averify.request, sig)
            same == /\ recovered.ok
                    /\ averify.expectedSigner.form \in HexForms
                    /\ recovered.val.mag = averify.expectedSigner.mag
        IN  /\ averify.returned
            /\ (sig.shape # "valid" \/ sig.flipped \/ ~same) => averify.value = FALSE
            /\ averify.value = TRUE => same

\* a signature that does not parse was verified and reported as false
C4_Witness ==
    /\ averify.called /\ averify.request.signature.shape = "malformed"
    /\ averify.returned /\ averify.value = FALSE

------------------------------------------------------------------------------
(* Claims on the encryption entry points (specification SpecSdk) *)

SdkTypeOf(op) ==
    CASE op = "encryptUint8" -> "uint8" [] op = "encryptUint16" -> "uint16"
      [] op = "encryptUint32" -> "uint32" [] op = "encryptBool" -> "bool"
      [] OTHER -> "address"

\* C5 (as stated): no encryption entry point encodes a value that violates
\* its type's invariant: given an out-of-range value, a non-integer for an
\* integer type or a non-boolean for bool, encryptUint8/16/32 and
\* encryptBool throw and produce no bytes.
C5_NoIllegalValueEncoded ==
    (/\ sdkOut.op \in {"encryptUint8", "encryptUint16", "encryptUint32", "encryptBool"}
     /\ ~LegalValue(sdkOut.arg, SdkTypeOf(sdkOut.op)))
    => (~sdkOut.ok /\ sdkOut.data = <<>>)

------------------------------------------------------------------------------
(* Claims on batch decoding (specification SpecBatch) *)

\* C11: batchDecrypt called with a handles array and a types array of
\* different lengths throws the length error before any handle is decoded:
\* no mockDecrypt call is made and no value is returned, also when some of
\* the handles could not be decoded.
C11_LengthMismatchRaisesFirst ==
    (bout.called /\ Len(bhandles) # Len(btypes)) =>
        /\ ~bout.ok /\ bout.err = ErrLengths
        /\ bout.decoded = 0 /\ bout.vals = <<>>

\* one undecodable handle and two types were handed over and refused
C11_Witness ==
    /\ bout.called /\ Len(bhandles) = 1 /\ Len(btypes) = 2
    /\ ~mockDecrypt(bhandles[1], btypes[1], 32).ok
    /\ bout.err = ErrLengths

\* C12: batchDecrypt on arrays of equal length n returns n values, the i-th
\* being mockDecrypt(handles[i], types[i]) whatever the other items are; if
\* an item fails to decode, the call throws the error of the first such item
\* and returns no values at all.
C12_BatchIsElementwise ==
    (bout.called /\ Len(bhandles) = Len(btypes)) =>
        LET n == Len(bhandles)
            each == [i \in 1..n |-> mockDecrypt(bhandles[i], btypes[i], 32)]
            bad == {i \in 1..n : ~each[i].ok}
        IN  /\ bad = {} =>
                  /\ bout.ok /\ Len(bout.vals) = n
                  /\ \A i \in 1..n : bout.vals[i] = each[i].val
            /\ bad # {} =>
                  /\ ~bout.ok /\ bout.vals = <<>>
                  /\ \E i \in bad : bout.err = each[i].err /\ \A j \in bad : i <= j

\* two items, the first decodable and the second not, failed as a whole
C12_Witness ==
    /\ bout.called /\ Len(bhandles) = 2 /\ Len(btypes) = 2
    /\ mockDecrypt(bhandles[1], btypes[1], 32).ok
    /\ ~mockDecrypt(bhandles[2], btypes[2], 32).ok
    /\ ~bout.ok /\ bout.vals = <<>>

------------------------------------------------------------------------------
(* Claims on FhevmSDK decryption (specification SpecSdk) *)

TypeWidth(type) ==
    CASE type \in IntegerTypes -> IntWidth(type)
      [] type = "bool" -> 1
      [] type = "address" -> 20
      [] OTHER -> 0

DecryptTypeOf(op) ==
    CASE op = "decryptUint8" -> "uint8" [] op = "decryptUint16" -> "uint16"
      [] op = "decryptUint32" -> "uint32" [] op = "decryptBool" -> "bool"
      [] OTHER -> "address"

InsufficientBytes(type) == "Insufficient bytes for " \o type

\* the last call was a decrypt method given the data of the instance's own
\* encrypt call of the same type
DecryptedOwn ==
    /\ sdkOut.op \in DecryptOps
    /\ sdkOut.type = DecryptTypeOf(sdkOut.op)

\* C13 (as stated, for FhevmSDK.decryptT): decrypting encrypted data whose
\* payload after the 32-byte key prefix has fewer bytes than the type's
\* width, the empty payload included, fails with 'Insufficient bytes for
\* <type>' and returns no value.
C13_ShortBufferFails ==
    LET type == DecryptTypeOf(sdkOut.op)
        data == handleBytes(sdkOut.input)
    IN  (/\ sdk.signer /\ sdkOut.op \in DecryptOps
         /\ data.ok /\ Len(data.bytes) >= 32
         /\ Len(data.bytes) - 32 < TypeWidth(type))
        => (/\ ~sdkOut.ok
            /\ sdkOut.err = InsufficientBytes(type)
            /\ sdkOut.val = Undefined)

\* C15: on an instance without a signer every decryptT and reencrypt call
\* throws the signer error and returns neither a value nor data, whatever its
\* input; on an instance with a signer no call throws that error.
C15_SignerRequired ==
    /\ (sdkOut.op \in DecryptOps /\ ~sdk.signer) =>
          (~sdkOut.ok /\ sdkOut.err = ErrNoSignerDecrypt /\ sdkOut.val = Undefined)
    /\ (sdkOut.op = "reencrypt" /\ ~sdk.signer) =>
          (~sdkOut.ok /\ sdkOut.err = ErrNoSignerReencrypt /\ sdkOut.data = <<>>)
    /\ sdk.signer => sdkOut.err \notin {ErrNoSignerDecrypt, ErrNoSignerReencrypt}

\* an instance without a signer refused to decrypt its own uint8 ciphertext
C15_Witness ==
    /\ sdk.made /\ ~sdk.signer
    /\ sdkOut.op = "decryptUint8" /\ DecryptedOwn
    /\ sdkOut.err = ErrNoSignerDecrypt

\* C16 (as stated): on an instance with a signer, decryptT of the data the
\* instance's encryptT returned for a legal value v returns v itself, for
\* uint8, uint16, uint32, bool and address.
C16_SdkRoundTripExact ==
    (sdk.signer /\ DecryptedOwn /\ LegalValue(sdkOut.arg, sdkOut.type))
    => (sdkOut.ok /\ sdkOut.val = sdkOut.arg)

\* C16 (amended): decryptT of the instance's own encryptT data returns v
\* itself for uint8, uint16, uint32 and bool (on either byte order of the
\* platform); for an address it returns the lower-case hex text of v, which
\* is v only when v was written in lower case.
C16_SdkRoundTripUpToCase ==
    (sdk.signer /\ DecryptedOwn /\ LegalValue(sdkOut.arg, sdkOut.type))
    => /\ sdkOut.ok
       /\ sdkOut.val = IF sdkOut.type = "address"
                        THEN AddrStr(sdkOut.arg.mag, "lower")
                        ELSE sdkOut.arg

\* a checksummed address was encrypted and decrypted and came back in lower case
C16_Witness ==
    /\ sdk.signer /\ DecryptedOwn /\ sdkOut.type = "address"
    /\ sdkOut.arg.form = "checksum" /\ HasLetters(sdkOut.arg.mag)
    /\ sdkOut.ok /\ sdkOut.val # sdkOut.arg /\ sdkOut.val.mag = sdkOut.arg.mag

\* C20: once init has made the instance it holds the 32 key bytes that
\* fetchPublicKey assigned during init; no later call (encrypt, decrypt,
\* reencrypt, getContract, a getter) changes them, and every EncryptedData
\* the instance returns starts with these 32 bytes.
C20_KeyFixedAtInit ==
    /\ [](sdk.made => (Len(sdk.publicKey) = 32 /\ sdk.publicKey = fetchPublicKey))
    /\ [][sdk.made => sdk'.publicKey = sdk.publicKey]_vars
    /\ []((sdkOut.op \in EncryptOps /\ sdkOut.ok) =>
             (Len(sdkOut.data) > 32 /\ SubSeq(sdkOut.data, 1, 32) = sdk.publicKey))

\* the instance has encrypted a value and then decrypted it, its key in place
C20_Witness ==
    /\ sdk.made /\ Len(sdk.publicKey) = 32
    /\ DecryptedOwn /\ sdkOut.ok
    /\ SubSeq(sdkOut.input.bytes, 1, 32) = sdk.publicKey

------------------------------------------------------------------------------
(* Claims on concurrent use (specification SpecShared) *)

\* the inputs task t alone has added, in the order of its calls
OwnInputs(t) ==
    LET own == SelectSeq(owners, LAMBDA a : a.by = t)
    IN  [i \in 1..Len(own) |-> [value |-> own[i].value, type |-> own[i].type]]

\* the inputs of all add calls made on the builder, in call order
AllInputs == [i \in 1..Len(owners) |-> [value |-> owners[i].value, type |-> owners[i].type]]

\* C14 (as stated): no call mutates state another call can observe, so on a
\* builder shared by several tasks every call returns what it would return
\* had its task run alone: encrypt() returns the result for the caller's own
\* add calls.
C14_CallsIndependent ==
    bres.op = "encrypt" => bres = encryptInputs(OwnInputs(caller), publicKey)

\* C14 (amended): the builder is mutable state shared by its users: every
\* add call of any task appends to the one accumulation, and encrypt()
\* returns the result for the inputs of all tasks' add calls in the order
\* the calls were made; it is the result of the caller running alone
\* exactly when no other task has added an input.
C14_SharedBuilderAccumulates ==
    /\ inputs = AllInputs
    /\ bres.op = "encrypt" =>
          /\ bres = encryptInputs(AllInputs, publicKey)
          /\ (bres.ok /\ \E i \in 1..Len(owners) : owners[i].by # caller) =>
                bres # encryptInputs(OwnInputs(caller), publicKey)

\* t1 and t2 have each added a value and t1's encrypt() returned both handles
C14_Witness ==
    /\ bres.op = "encrypt" /\ bres.ok /\ caller = "t1"
    /\ Len(owners) = 2 /\ owners[1].by = "t1" /\ owners[2].by = "t2"
    /\ Len(bres.handles) = 2

------------------------------------------------------------------------------
(* Claims on CulturalVoting (specification SpecVoting) *)

VoteKeys == RoundIds \X ProjectArgs \X Accounts

AdminFunctions == {"authorizeVoter", "revokeVoter", "startVotingRound", "endVotingRound"}

\* C17: for every round number, project and voter at most one submitVote
\* succeeds; once a vote is recorded no transaction changes it, so a further
\* submitVote of the same voter for the same project in the same round
\* reverts and leaves the vote as it was, also after the voter was revoked
\* and authorized again and after the round was started again.
C17_NoDoubleVote ==
    /\ [](\A k \in VoteKeys :
            accepted[k] <= 1 /\ (votes[k].hasVoted <=> accepted[k] = 1))
    /\ [][\A k \in VoteKeys : votes[k].hasVoted => votes'[k] = votes[k]]_vars

\* the round was ended and started again, which emptied its roster, and a
\* voter's second vote for the same project was still refused
C17_Witness ==
    /\ txn.fn = "submitVote" /\ ~txn.ok /\ txn.err = ErrAlreadyVoted
    /\ currentVotingRound \in ended
    /\ votingRounds[currentVotingRound].votingActive
    /\ votingRounds[currentVotingRound].voters = <<>>

\* C18 (as stated): resultsRevealed[r] is true, and currentVotingRound is
\* past r, only for a round r that was started, was ended by endVotingRound
\* and is no longer votingActive.
C18_RevealedOnlyAfterEnd ==
    \A r \in RoundIds :
        (votingRounds[r].resultsRevealed \/ r < currentVotingRound) =>
            (r \in started /\ r \in ended /\ ~votingRounds[r].votingActive)

\* C19: a transaction that reverts leaves the whole storage as it was; a
\* submitVote changes the storage only when its sender is authorized, the
\* current round is active, the project is in the current round and the
\* score is in 1..10; authorizeVoter, revokeVoter, startVotingRound and
\* endVotingRound change it only when sent by the admin; and the admin
\* never changes.
C19_GuardedFunctions ==
    [][/\ admin' = admin
       /\ txn'.n # txn.n =>
             /\ ~txn'.ok => storage' = storage
             /\ (txn'.ok /\ txn'.fn = "submitVote") =>
                   /\ storage' # storage
                   /\ authorizedVoters[txn'.sender]
                   /\ votingRounds[currentVotingRound].votingActive
                   /\ \E i \in 1..Len(votingRounds[currentVotingRound].projectIds) :
                         votingRounds[currentVotingRound].projectIds[i]
                             = txn'.args.projectId
                   /\ txn'.args.score \in 1..10
             /\ (txn'.ok /\ txn'.fn \in AdminFunctions) => txn'.sender = admin
             /\ (~txn'.ok /\ txn'.err = ErrNotAdmin) => txn'.sender # admin
             /\ (~txn'.ok /\ txn'.err = ErrNotVoter) => ~authorizedVoters[txn'.sender]]_vars

\* the admin revoked itself as a voter and its vote in an active round was refused
C19_Witness ==
    /\ txn.fn = "submitVote" /\ ~txn.ok /\ txn.err = ErrNotVoter
    /\ txn.sender = admin
    /\ votingRounds[currentVotingRound].votingActive

------------------------------------------------------------------------------
(* Claims on the encoding and the mock encryptor (specification SpecCodec) *)

\* the number the bytes spell when read least significant byte first
LittleEndianMag(bytes) ==
    Canon([j \in 1..((Len(bytes) + 1) \div 2) |->
              bytes[2 * j - 1] + (IF 2 * j <= Len(bytes) THEN 256 * bytes[2 * j] ELSE 0)])

\* C21: mockEncrypt(value, type, key) with a 32-byte key returns
\* data = key ++ valueToBytes(value, type), of length 32 + the width of the
\* type, and a 64-byte proof with proof[i] = combined[i mod |combined|] XOR i
\* for combined = valueToBytes(value, type) ++ key; a second call on the same
\* value, type and key returns the same data and proof.
C21_MockEncryptLayout ==
    /\ \A r \in {cmock, cagain} :
          r.ok =>
             LET encoded == valueToBytes(cval, ctype).bytes
                 combined == encoded \o ckey
             IN  /\ Len(ckey) = 32
                 /\ r.data = ckey \o encoded
                 /\ Len(r.data) = 32 + TypeWidth(ctype)
                 /\ Len(r.proof) = 64
                 /\ \A i \in 0..63 :
                       r.proof[i + 1] = Xor(combined[(i % Len(combined)) + 1], i)
                 /\ r.type = ctype
    /\ cagain # IdleEncrypted => cagain = cmock

\* a uint16 was encrypted twice under the counting key, successfully
C21_Witness ==
    /\ ctype = "uint16" /\ cval = IntNum(<<4660>>) /\ ckey = KeyCount
    /\ cmock.ok /\ cagain.ok

\* C22: the bytes valueToBytes returns have the fixed width of the type
\* (uint8 and bool 1, uint16 2, uint32 4, uint64 8, address 20); for the
\* integer types they are little-endian (every one a byte, and read least
\* significant first they spell the value); bool gives 1 for true and 0 for
\* false.
C22_FixedWidthLittleEndian ==
    cenc.ok =>
        /\ Len(cenc.bytes) = TypeWidth(ctype)
        /\ \A i \in 1..Len(cenc.bytes) : cenc.bytes[i] \in 0..255
        /\ ctype \in IntegerTypes =>
              /\ NumericOf(cval).def /\ ~NumericOf(cval).neg
              /\ LittleEndianMag(cenc.bytes) = NumericOf(cval).mag
        /\ ctype = "bool" => cenc.bytes = <<IF cval = Bool(TRUE) THEN 1 ELSE 0>>

\* 0x12340000FFFF was encoded as a uint64 into eight bytes
C22_Witness ==
    /\ ctype = "uint64" /\ cval = Big(FALSE, <<65535, 0, 4660>>)
    /\ cenc.ok /\ cenc.bytes = <<255, 255, 0, 0, 52, 18, 0, 0>>

------------------------------------------------------------------------------
(* Claims on the rate limiter (specification SpecLimiter) *)

\* the accepted check(identifier) calls since the last reset(identifier) that
\* were made less than windowMs before the instant t
Young(identifier, t) ==
    Cardinality({i \in DOMAIN granted[identifier] : t - granted[identifier][i] < window})

\* C23: the limiter is a sliding window per identifier: at every instant,
\* for every identifier, at most `limit` of the check calls that returned
\* true since the identifier's last reset were made less than windowMs
\* before that instant; and a check(identifier) made while `limit` (or more)
\* accepted calls are younger than windowMs returns false.
C23_SlidingWindow ==
    /\ [](\A identifier \in Identifiers : Young(identifier, clock) <= limit)
    /\ [][\A identifier \in Identifiers :
             (check(identifier) /\ Young(identifier, clock) >= limit) =>
                 (lout'.value = FALSE /\ granted' = granted)]_vars

\* with limit 2 and a window of 2, u1 was accepted at 0 and 1, refused at 1,
\* and accepted again at 2 when the first call had left the window
C23_Witness ==
    /\ limit = 2 /\ window = 2 /\ clock = 2
    /\ granted["u1"] = <<0, 1, 2>>
    /\ requests["u1"] = <<1, 2>>
    /\ lcalls = 4

------------------------------------------------------------------------------
(* Claims on the aggregation of the results (SpecVoting, SpecCrowd) *)

RECURSIVE MaxOf(_)
MaxOf(q) ==
    IF q = <<>> THEN 0
    ELSE IF Head(q) > MaxOf(Tail(q)) THEN Head(q) ELSE MaxOf(Tail(q))

\* the first of the request's projects whose total is the largest one
FirstReaching(q) ==
    q.projectIds[CHOOSE i \in 1..Len(q.sums) :
                    /\ q.sums[i] = MaxOf(q.sums)
                    /\ \A j \in 1..(i - 1) : q.sums[j] < MaxOf(q.sums)]

NoVoteAccepted(r) ==
    \A id \in ProjectArgs, a \in Accounts : accepted[<<r, id, a>>] = 0

\* C24 (as stated): when the gateway calls back with the decrypted scores of
\* an ended round, in collection order, processResults records for that
\* round the largest per-project total of the scores cast as maxScore and
\* the first project of projectIds reaching it as winningProjectId; a round
\* ended with no votes is finalized at once with winner 0 and score 0.
C24_WinnerByTotalScore ==
    /\ [][deliverResults =>
             \E k \in 1..Len(decryption) :
                 LET q == decryption[k]
                 IN  /\ decryption' = Without(decryption, k)
                     /\ txn'.ok
                     /\ votingRounds'[q.round].resultsRevealed
                     /\ votingRounds'[q.round].maxScore = MaxOf(q.sums)
                     /\ votingRounds'[q.round].winningProjectId = FirstReaching(q)]_vars
    /\ [][(endVotingRound /\ txn'.ok /\ NoVoteAccepted(currentVotingRound)) =>
             /\ votingRounds'[currentVotingRound].resultsRevealed
             /\ votingRounds'[currentVotingRound].winningProjectId = 0
             /\ votingRounds'[currentVotingRound].maxScore = 0
             /\ currentVotingRound' = currentVotingRound + 1]_vars

\* the rounds endVotingRound has ended whose results are not revealed yet
Pending(r) == r \in ended /\ ~votingRounds[r].resultsRevealed

\* C27 (as stated): while the results of an ended round r are pending, no
\* transaction changes r's projectIds or voters or makes r votingActive
\* again.
C27_PendingRoundFrozen ==
    [][\A r \in RoundIds :
          Pending(r) =>
             /\ votingRounds'[r].projectIds = votingRounds[r].projectIds
             /\ votingRounds'[r].voters = votingRounds[r].voters
             /\ ~votingRounds'[r].votingActive]_vars

\* the total of the scores accepted for a project in the current round
CrowdTotal(projectId) ==
    SumSeq([k \in 1..MaxVoters |->
               votes[<<currentVotingRound, projectId, CrowdNames[k]>>].encryptedScore])

\* C28 (as stated): whatever votes submitVote accepted in a round, each
\* project's total fits in 8 bits, and the gateway's callback for the ended
\* round does not revert: it reveals the results and advances
\* currentVotingRound by one.
C28_CallbackFinalizes ==
    /\ [](CrowdTotal(1) <= 255)
    /\ [][crowdDeliver =>
             /\ txn'.ok
             /\ votingRounds'[currentVotingRound].resultsRevealed
             /\ currentVotingRound' = currentVotingRound + 1]_vars

------------------------------------------------------------------------------
(* Claims on the builder-to-batchDecrypt round trip (SpecPipeline) *)

AllLegal(ins) == \A i \in 1..Len(ins) : LegalValue(ins[i].value, ins[i].type)

\* C25 (as stated): for any non-empty sequence of legal typed values added
\* to a builder with a 32-byte key, batchDecrypt(result.handles, the types
\* in insertion order) returns exactly the values added, in insertion order.
C25_BatchRoundTripExact ==
    [][(pipeDecrypt /\ AllLegal(inputs)) =>
          /\ bout'.ok
          /\ bout'.vals = [i \in 1..Len(inputs) |-> inputs[i].value]]_vars

\* C25 (amended): encrypt() on a non-empty sequence of legal typed values
\* succeeds, and batchDecrypt on its handles and the types in insertion
\* order returns one value per added value, in insertion order: the value
\* itself for the integer types and bool, the checksummed spelling of the
\* address for an address.
C25_BatchRoundTripUpToChecksum ==
    /\ [][(pipeEncrypt /\ inputs # <<>> /\ AllLegal(inputs)) =>
             (bres'.ok /\ Len(bres'.handles) = Len(inputs))]_vars
    /\ [][(pipeDecrypt /\ AllLegal(inputs)) =>
             /\ Len(publicKey) = 32
             /\ bout'.ok
             /\ bout'.decoded = Len(inputs)
             /\ bout'.vals = [i \in 1..Len(inputs) |->
                                 IF inputs[i].type = "address"
                                 THEN Str("checksum", inputs[i].value.mag)
                                 ELSE inputs[i].value]]_vars

\* a lower-case address and a uint32 went through the builder and came
\* back in that order, the address respelled
C25_Witness ==
    /\ bout.ok /\ Len(inputs) = 2 /\ btypes = <<"address", "uint32">>
    /\ inputs[1].value = AddrStr(AddrBytesA, "lower")
    /\ bout.vals = <<Str("checksum", AddrBytesA), IntNum(<<4660, 1>>)>>

------------------------------------------------------------------------------
(* Claims on the React provider (specification SpecProvider) *)

\* C26 (as stated): once every pending initialization has settled, the
\* context exposes what belongs to the configuration requested last: its
\* instance, INITIALIZED and no error when that initialization returned,
\* FAILED and its error when it threw; whatever the order in which the
\* initializations completed.
C26_LatestConfigWins ==
    (pendingInits = <<>> /\ latest.req > 0) =>
        /\ latest.outcome = "resolved" =>
              /\ fhevm = Instance(latest.req, latest.network)
              /\ initState = "INITIALIZED"
              /\ error = Null
        /\ latest.outcome = "rejected" =>
              /\ initState = "FAILED"
              /\ error = InitError(latest.req, latest.network)

====
